---------------------------- MODULE Spec2Model ----------------------------
(***************************************************************************)
(* A model of the sql-agent pipeline: Planner (planner.py), SQLAgent       *)
(* (agent.py), SchemaAgent, QueryAgent, DiscrepancyAgent (sub_agents/) and *)
(* Memory (memory.py).                                                     *)
(*                                                                         *)
(* Text is a sequence of one-character strings, so that lower(), the `in`  *)
(* substring test and the regular expressions are computed, not assumed.   *)
(* A Python dict is a function whose DOMAIN is the set of keys present;    *)
(* a Python list is a sequence; None / no match is the empty sequence or   *)
(* an absent key, as noted at each use.                                    *)
(***************************************************************************)
EXTENDS Integers, Sequences, FiniteSets, TLC

VARIABLES
    pc,              \* position of the current call
    user_query,      \* the request text handed to query() / create_plan()
    templates,       \* Planner.templates
    plan,            \* the Plan returned by Planner.create_plan
    data,            \* the batch handed to DiscrepancyAgent._apply_generic_checks
    discrepancies,   \* the list a DiscrepancyAgent method returned
    context,         \* the shared context dict of _execute_plan
    memory,          \* Memory.memory: category -> list of entries
    business_rules,  \* DiscrepancyAgent.business_rules, in insertion order
    bedrock_agent,   \* whether the agents hold a BedrockAgent
    calls,           \* history: the collaborators and checks invoked
    schemas,         \* SchemaAgent.schemas
    schema_cache,    \* SchemaAgent.schema_cache
    sub_agents,      \* SQLAgent.enable_sub_agents
    step,            \* the position of _execute_plan's loop in plan.steps
    result,          \* what query() returned
    mem0,            \* history: Memory.memory when query() was called
    missed,          \* history: context keys a stage read before they were set
    stages,          \* history: the stages started, in order
    rule_calls,      \* history: the arguments of the latest two set_business_logic calls
    current_time,    \* time.time()
    param_maps       \* the params dicts of the PlanStep objects, by identity

plannerVars == <<templates, plan, param_maps>>
agentVars == <<context, memory, business_rules, bedrock_agent>>
pipeVars == <<schemas, schema_cache, sub_agents, step, result, mem0, missed,
              stages>>

vars == <<pc, user_query, templates, plan, data, discrepancies,
          context, memory, business_rules, bedrock_agent, calls,
          schemas, schema_cache, sub_agents, step, result, mem0, missed,
          stages, rule_calls, current_time, param_maps>>

---------------------------------------------------------------------------
(* Bounds of the model *)

\* requests of PlannerSpec are concatenations of at most MaxFrags fragments
MaxFrags == 3

\* requests of SchemaSpec are made of at most MaxSchemaFrags fragments
MaxSchemaFrags == 2

\* batches of GenericSpec have at most MaxRows rows
MaxRows == 3

\* rule registries of DiscSpec hold at most MaxRules rules
MaxRules == 2

---------------------------------------------------------------------------
(* Text: str.lower(), `k in s`, \w *)

UpperChars ==
    <<"A","B","C","D","E","F","G","H","I","J","K","L","M",
      "N","O","P","Q","R","S","T","U","V","W","X","Y","Z">>

LowerChars ==
    <<"a","b","c","d","e","f","g","h","i","j","k","l","m",
      "n","o","p","q","r","s","t","u","v","w","x","y","z">>

DigitChars == <<"0","1","2","3","4","5","6","7","8","9">>

Range(s) == {s[i] : i \in 1..Len(s)}

LowerChar(c) ==
    IF \E i \in 1..Len(UpperChars) : UpperChars[i] = c
    THEN LowerChars[CHOOSE i \in 1..Len(UpperChars) : UpperChars[i] = c]
    ELSE c

\* str.lower()
Lower(s) == [i \in 1..Len(s) |-> LowerChar(s[i])]

\* \w on ASCII text
IsWordChar(c) ==
    c \in Range(UpperChars) \cup Range(LowerChars) \cup Range(DigitChars) \cup {"_"}

\* s[i:].startswith(k), positions counted from 1
StartsAt(s, i, k) ==
    /\ i >= 1
    /\ i + Len(k) - 1 <= Len(s)
    /\ SubSeq(s, i, i + Len(k) - 1) = k

\* Python's `k in s` on strings
Contains(s, k) == \E i \in 1..(Len(s) + 1) : StartsAt(s, i, k)

\* the length of the greedy \w+ run that starts at position i (0: none)
WordRun(s, i) ==
    IF i > Len(s) \/ ~IsWordChar(s[i]) THEN 0
    ELSE LET stops == {j \in i..Len(s) : ~IsWordChar(s[j])}
         IN  IF stops = {} THEN Len(s) - i + 1
             ELSE (CHOOSE j \in stops : \A m \in stops : j <= m) - i

RECURSIVE Concat(_)
Concat(ss) == IF ss = <<>> THEN <<>> ELSE Head(ss) \o Concat(Tail(ss))

---------------------------------------------------------------------------
(* re.search(r"(a1|a2) (\w+)", text).group(2)                              *)
(* The alternatives are tried in order at each position, leftmost position *)
(* first; <<>> stands for "no match" (group 2 is never empty).             *)

\* group 2 of a match of alternative alt anchored at position i, or <<>>
AltMatchAt(text, i, alt) ==
    LET w == i + Len(alt) + 1
    IN  IF /\ StartsAt(text, i, alt)
           /\ i + Len(alt) <= Len(text)
           /\ text[i + Len(alt)] = " "
           /\ WordRun(text, w) > 0
        THEN SubSeq(text, w, w + WordRun(text, w) - 1)
        ELSE <<>>

RECURSIVE FirstAlt(_, _, _)
FirstAlt(text, i, alts) ==
    IF alts = <<>> THEN <<>>
    ELSE IF AltMatchAt(text, i, Head(alts)) # <<>>
         THEN AltMatchAt(text, i, Head(alts))
         ELSE FirstAlt(text, i, Tail(alts))

RECURSIVE SearchFrom(_, _, _)
SearchFrom(text, i, alts) ==
    IF i > Len(text) THEN <<>>
    ELSE IF FirstAlt(text, i, alts) # <<>>
         THEN FirstAlt(text, i, alts)
         ELSE SearchFrom(text, i + 1, alts)

SearchKeywordIdent(text, alts) == SearchFrom(text, 1, alts)

---------------------------------------------------------------------------
(* Words used by the program and by the requests *)

W_table    == <<"t","a","b","l","e">>
W_tables   == <<"t","a","b","l","e","s">>
W_schema   == <<"s","c","h","e","m","a">>
W_database == <<"d","a","t","a","b","a","s","e">>
W_orders   == <<"o","r","d","e","r","s">>
W_order    == <<"o","r","d","e","r">>
W_sales    == <<"s","a","l","e","s">>
W_hr       == <<"h","r">>
W_staff    == <<"s","t","a","f","f">>
W_SALES    == <<"S","A","L","E","S">>
W_ORDERS   == <<"O","R","D","E","R","S">>
W_CUSTOMERS == <<"C","U","S","T","O","M","E","R","S">>
W_ord      == <<"o","r","d">>
W_foo      == <<"f","o","o">>

\* Planner._query_needs_discrepancy_check: discrepancy_keywords
discrepancy_keywords ==
    << <<"d","i","s","c","r","e","p","a","n","c","y">>,
       <<"d","i","s","c","r","e","p","a","n","c","i","e","s">>,
       <<"i","n","c","o","n","s","i","s","t","e","n","c","y">>,
       <<"i","n","c","o","n","s","i","s","t","e","n","c","i","e","s">>,
       <<"e","r","r","o","r">>,
       <<"e","r","r","o","r","s">>,
       <<"m","i","s","m","a","t","c","h">>,
       <<"m","i","s","m","a","t","c","h","e","s">>,
       <<"w","r","o","n","g">>,
       <<"i","n","c","o","r","r","e","c","t">>,
       <<"v","a","l","i","d","a","t","e">>,
       <<"v","a","l","i","d","a","t","i","o","n">>,
       <<"v","e","r","i","f","y">>,
       <<"v","e","r","i","f","i","c","a","t","i","o","n">>,
       <<"c","h","e","c","k">> >>

---------------------------------------------------------------------------
(* Planner (planner.py) *)

\* PlanStep(agent, action, description): params defaults to an empty dict
PlanStep(agent, action, description) ==
    [agent |-> agent, action |-> action, description |-> description,
     params |-> <<>>]

SchemaStep ==
    PlanStep("schema", "get_schema_info",
             "Determine which schema and tables to use")

QueryStep ==
    PlanStep("query", "execute_query", "Generate and execute SQL query")

DiscrepancyStep ==
    PlanStep("discrepancy", "check_discrepancies",
             "Check for discrepancies in the data")

StandardQueryTemplate == <<SchemaStep, QueryStep>>

\* mutant: the template with the query stage ahead of the schema stage
DiscrepancyTemplate_QueryFirst == <<QueryStep, SchemaStep, DiscrepancyStep>>

DiscrepancyTemplate == <<SchemaStep, QueryStep, DiscrepancyStep>>

\* Planner._define_templates
DefineTemplates ==
    [name \in {"standard_query", "query_with_discrepancy"} |->
        IF name = "standard_query" THEN StandardQueryTemplate
        ELSE DiscrepancyTemplate]

\* dict item assignment d[k] = v
DictSet(d, k, v) ==
    [x \in (DOMAIN d) \cup {k} |-> IF x = k THEN v ELSE d[x]]

\* mutant: the keyword test without lower-casing the request
QueryNeedsDiscrepancyCheck_CaseSensitive(query) ==
    \E n \in 1..Len(discrepancy_keywords) :
        Contains(query, discrepancy_keywords[n])

\* Planner._query_needs_discrepancy_check
QueryNeedsDiscrepancyCheck(query) ==
    \E n \in 1..Len(discrepancy_keywords) :
        Contains(Lower(query), discrepancy_keywords[n])

\* Planner._copy_template: self.templates.get(name, []), params copied
CopyTemplate(tmpl, name) ==
    IF name \in DOMAIN tmpl
    THEN [i \in 1..Len(tmpl[name]) |->
            [agent |-> tmpl[name][i].agent,
             action |-> tmpl[name][i].action,
             description |-> tmpl[name][i].description,
             params |-> tmpl[name][i].params]]
    ELSE <<>>

\* mutant: the pattern without the plural alternative
TableMatch_SingularOnly(query_lower) ==
    SearchKeywordIdent(query_lower, <<W_table>>)

\* re.search(r"(table|tables) (\w+)", query_lower)
TableMatch(query_lower) ==
    SearchKeywordIdent(query_lower, <<W_table, W_tables>>)

\* re.search(r"(schema|database) (\w+)", query_lower)
SchemaMatch(query_lower) ==
    SearchKeywordIdent(query_lower, <<W_schema, W_database>>)

\* the first loop of _customize_plan
InjectTables(steps, table_name) ==
    [i \in 1..Len(steps) |->
        IF table_name # <<>> /\ steps[i].agent = "schema"
        THEN [steps[i] EXCEPT
                !.params = DictSet(@, "suggested_tables", <<table_name>>)]
        ELSE steps[i]]

\* the second loop of _customize_plan
InjectSchema(steps, schema_name) ==
    [i \in 1..Len(steps) |->
        IF schema_name # <<>> /\ steps[i].agent = "schema"
        THEN [steps[i] EXCEPT
                !.params = DictSet(@, "suggested_schema", schema_name)]
        ELSE steps[i]]

\* Planner._customize_plan
CustomizePlan(steps, query) ==
    InjectSchema(InjectTables(steps, TableMatch(Lower(query))),
                 SchemaMatch(Lower(query)))

\* Planner.create_plan: which template the request selects
TemplateFor(query) ==
    IF QueryNeedsDiscrepancyCheck(query)
    THEN "query_with_discrepancy"
    ELSE "standard_query"

\* Planner.create_plan
CreatePlan(tmpl, query) ==
    [query |-> query,
     steps |-> CustomizePlan(CopyTemplate(tmpl, TemplateFor(query)), query)]

\* Planner._define_templates, as objects: the five PlanStep objects hold the
\* identities 1..5 of their params dicts
TemplateObjects ==
    [name \in {"standard_query", "query_with_discrepancy"} |->
        [i \in 1..Len(DefineTemplates[name]) |->
            [DefineTemplates[name][i] EXCEPT
                !.params = (IF name = "standard_query" THEN 0 ELSE 2) + i]]]

\* field(default_factory=dict): one empty dict for each template PlanStep
TemplateParamMaps == [a \in 1..5 |-> <<>>]

\* mutant: the new steps keep the template's params dicts
CopyTemplateObjects_SharedParams(maps, tmpl, name) ==
    IF name \in DOMAIN tmpl
    THEN [steps |-> tmpl[name], maps |-> maps]
    ELSE [steps |-> <<>>, maps |-> maps]

\* Planner._copy_template, as objects: each new PlanStep gets
\* step.params.copy(), a new dict
CopyTemplateObjects(maps, tmpl, name) ==
    IF name \in DOMAIN tmpl
    THEN [steps |-> [i \in 1..Len(tmpl[name]) |->
                       [tmpl[name][i] EXCEPT !.params = Len(maps) + i]],
          maps |-> maps \o [i \in 1..Len(tmpl[name]) |->
                               maps[tmpl[name][i].params]]]
    ELSE [steps |-> <<>>, maps |-> maps]

\* step.params[key] = value for every schema step of steps
SetParam(maps, steps, key, value) ==
    [a \in 1..Len(maps) |->
        IF \E i \in 1..Len(steps) :
              steps[i].agent = "schema" /\ steps[i].params = a
        THEN DictSet(maps[a], key, value)
        ELSE maps[a]]

\* the second loop of _customize_plan, as objects
InjectSchemaObjects(maps, steps, schema_name) ==
    IF schema_name # <<>>
    THEN SetParam(maps, steps, "suggested_schema", schema_name)
    ELSE maps

\* the first loop of _customize_plan, as objects
InjectTablesObjects(maps, steps, table_name) ==
    IF table_name # <<>>
    THEN SetParam(maps, steps, "suggested_tables", <<table_name>>)
    ELSE maps

\* Planner._customize_plan, as objects
CustomizePlanObjects(maps, steps, query) ==
    InjectSchemaObjects(
        InjectTablesObjects(maps, steps, TableMatch(Lower(query))),
        steps, SchemaMatch(Lower(query)))

\* Planner.create_plan, as objects: the Plan returned and the dicts after it
CreatePlanObjects(copied, query) ==
    [plan |-> [query |-> query, steps |-> copied.steps],
     maps |-> CustomizePlanObjects(copied.maps, copied.steps, query)]

\* no plan yet
NoPlan == [query |-> <<>>, steps |-> <<>>]

\* the orchestrator's state in a specification of one function
PipelineUnused ==
    /\ schemas = <<>>
    /\ schema_cache = <<>>
    /\ sub_agents = FALSE
    /\ step = 0
    /\ result = <<>>
    /\ mem0 = <<>>
    /\ missed = {}
    /\ stages = <<>>

\* the agents' state in a specification of one function that has no agent
AgentUnused ==
    /\ rule_calls = <<>>
    /\ current_time = 0
    /\ context = <<>>
    /\ memory = <<>>
    /\ business_rules = <<>>
    /\ bedrock_agent = FALSE
    /\ calls = <<>>
    /\ PipelineUnused

---------------------------------------------------------------------------
(* PlannerSpec: create_plan applied to every request built from fragments *)

Fragments ==
    { <<"s","h","o","w"," ">>,
      <<"C","h","e","c","k"," ">>,
      <<"E","r","r","o","r","s">>,
      <<"t","a","b","l","e"," ">>,
      <<"T","a","b","l","e","s"," ">>,
      <<"o","r","d","e","r","s">>,
      <<"X","_","1"," ">>,
      <<"s","c","h","e","m","a"," ">>,
      <<"-">> }

FragSeqs == UNION {[1..n -> Fragments] : n \in 0..MaxFrags}

Requests == {Concat(fs) : fs \in FragSeqs}

PlannerInit ==
    /\ pc = "request"
    /\ user_query \in Requests
    /\ templates = DefineTemplates
    /\ param_maps = <<>>
    /\ plan = NoPlan
    /\ data = <<>>
    /\ discrepancies = <<>>
    /\ AgentUnused

PlannerCreatePlan ==
    /\ pc = "request"
    /\ plan' = CreatePlan(templates, user_query)
    /\ pc' = "planned"
    /\ UNCHANGED <<user_query, templates, param_maps, data, discrepancies, agentVars, rule_calls, current_time, calls,
                   pipeVars>>

PlannerNext == PlannerCreatePlan

PlannerSpec == PlannerInit /\ [][PlannerNext]_vars

---------------------------------------------------------------------------
(* PlannerCallsSpec: one Planner serving a sequence of create_plan calls,  *)
(* with its PlanStep params dicts kept by identity                         *)

\* the number of create_plan calls on one planner
MaxCalls == 3

CallRequests ==
    { <<"s","h","o","w"," ">> \o W_orders,
      W_table \o <<" ">> \o W_orders,
      W_schema \o <<" ">> \o W_hr,
      <<"C","h","e","c","k"," ">> \o W_tables \o <<" ">> \o W_staff
          \o <<" ">> \o W_database \o <<" ">> \o W_sales,
      <<"E","r","r","o","r","s">> }

PlannerCallsInit ==
    /\ pc = "planner"
    /\ user_query = <<>>
    /\ templates = TemplateObjects
    /\ param_maps = TemplateParamMaps
    /\ plan = NoPlan
    /\ data = <<>>
    /\ discrepancies = <<>>
    /\ AgentUnused

\* one call of create_plan; calls keeps the plans returned so far
PlannerCallCreatePlan ==
    /\ pc = "planner"
    /\ Len(calls) < MaxCalls
    /\ \E q \in CallRequests :
          /\ user_query' = q
          /\ plan' = CreatePlanObjects(
                         CopyTemplateObjects(param_maps, templates,
                                             TemplateFor(q)), q).plan
          /\ param_maps' = CreatePlanObjects(
                               CopyTemplateObjects(param_maps, templates,
                                                   TemplateFor(q)), q).maps
    /\ calls' = Append(calls, plan')
    /\ UNCHANGED <<pc, templates, data, discrepancies, agentVars, rule_calls,
                   current_time, pipeVars>>

PlannerCallsNext == PlannerCallCreatePlan

PlannerCallsSpec == PlannerCallsInit /\ [][PlannerCallsNext]_vars

---------------------------------------------------------------------------
(* DiscrepancyAgent._apply_generic_checks (discrepancy_agent.py)           *)
(* A row is a dict in column order: a sequence of <<field, value>> pairs   *)
(* with distinct fields. Field names are text; values are opaque tokens,   *)
(* None being Python's None. Row indices are 0-based as in enumerate().    *)

None == "None"

F_id    == <<"i","d">>
F_ID    == <<"I","D">>
F_code  == <<"c","o","d","e">>
F_key   == <<"k","e","y">>
F_price == <<"p","r","i","c","e">>
F_Notes == <<"N","o","t","e","s">>

\* format_oracle_results(cursor, max_rows = 100)
max_rows == 100

\* mutant: the skip list without "notes"
NonCriticalFields_NoNotes ==
    { F_id,
      <<"c","r","e","a","t","e","d","_","a","t">>,
      <<"u","p","d","a","t","e","d","_","a","t">>,
      <<"d","e","s","c","r","i","p","t","i","o","n">> }

\* the fields the null check skips
NonCriticalFields ==
    { F_id,
      <<"c","r","e","a","t","e","d","_","a","t">>,
      <<"u","p","d","a","t","e","d","_","a","t">>,
      <<"n","o","t","e","s">>,
      <<"d","e","s","c","r","i","p","t","i","o","n">> }

\* primary_fields
primary_fields == <<F_id, F_code, F_key>>

\* row.keys()
RowKeys(row) == {row[k][1] : k \in 1..Len(row)}

\* row.get(field)
RowGet(row, field) ==
    IF field \in RowKeys(row)
    THEN row[CHOOSE k \in 1..Len(row) : row[k][1] = field][2]
    ELSE None

NullValueRecord(idx, field) ==
    [type |-> "null_value", severity |-> "low",
     row_indices |-> <<idx>>, fields |-> <<field>>]

DuplicateValueRecord(first, idx, field, value) ==
    [type |-> "duplicate_value", severity |-> "high",
     row_indices |-> <<first, idx>>, fields |-> <<field>>, value |-> value]

\* the inner loop of the null check: the items of one row from item k on
RECURSIVE NullScanRow(_, _, _)
NullScanRow(row, idx, k) ==
    IF k > Len(row) THEN <<>>
    ELSE (IF Lower(row[k][1]) \notin NonCriticalFields /\ row[k][2] = None
          THEN <<NullValueRecord(idx, row[k][1])>>
          ELSE <<>>) \o NullScanRow(row, idx, k + 1)

\* the null check: rows i.. of the batch
RECURSIVE NullScan(_, _)
NullScan(batch, i) ==
    IF i > Len(batch) THEN <<>>
    ELSE NullScanRow(batch[i], i - 1, 1) \o NullScan(batch, i + 1)

\* mutant: a repeated value is reported against the row just before it
DupRecordOrSeen_Previous(seen, value, idx, field) ==
    IF value \in DOMAIN seen
    THEN [rec |-> <<DuplicateValueRecord(idx - 1, idx, field, value)>>,
          seen |-> seen]
    ELSE [rec |-> <<>>, seen |-> DictSet(seen, value, idx)]

\* the body of the duplicate scan for one row: a record and the seen map
DupRecordOrSeen(seen, value, idx, field) ==
    IF value \in DOMAIN seen
    THEN [rec |-> <<DuplicateValueRecord(seen[value], idx, field, value)>>,
          seen |-> seen]
    ELSE [rec |-> <<>>, seen |-> DictSet(seen, value, idx)]

\* the duplicate scan of one field: rows i.., seen_values[field] = seen
RECURSIVE DupScan(_, _, _, _)
DupScan(batch, field, i, seen) ==
    IF i > Len(batch) THEN <<>>
    ELSE LET scanned == DupRecordOrSeen(seen, RowGet(batch[i], field), i - 1, field)
         IN  scanned.rec \o DupScan(batch, field, i + 1, scanned.seen)

\* the duplicate check: primary_fields from position f on
RECURSIVE DupFields(_, _)
DupFields(batch, f) ==
    IF f > Len(primary_fields) THEN <<>>
    ELSE (IF batch # <<>> /\ primary_fields[f] \in RowKeys(batch[1])
          THEN DupScan(batch, primary_fields[f], 1, <<>>)
          ELSE <<>>) \o DupFields(batch, f + 1)

\* DiscrepancyAgent._apply_generic_checks(data, schema_info)
ApplyGenericChecks(batch) == NullScan(batch, 1) \o DupFields(batch, 1)

---------------------------------------------------------------------------
(* GenericSpec: _apply_generic_checks applied to every small batch.  The   *)
(* rows of a batch share their columns, as format_oracle_results builds    *)
(* them with dict(zip(columns, row)).                                     *)

Values == {None, "1", "2"}

ColumnLists ==
    { <<F_id>>, <<F_id, F_price>>, <<F_code, F_key>>, <<F_ID, F_Notes>> }

RowsOver(cols) ==
    {[k \in 1..Len(cols) |-> <<cols[k], vals[k]>>] :
        vals \in [1..Len(cols) -> Values]}

Batches ==
    UNION {[1..n -> RowsOver(cols)] : n \in 0..MaxRows, cols \in ColumnLists}

GenericInit ==
    /\ pc = "batch"
    /\ data \in Batches
    /\ discrepancies = <<>>
    /\ user_query = <<>>
    /\ templates = DefineTemplates
    /\ param_maps = <<>>
    /\ plan = NoPlan
    /\ AgentUnused

GenericApply ==
    /\ pc = "batch"
    /\ discrepancies' = ApplyGenericChecks(data)
    /\ pc' = "checked"
    /\ UNCHANGED <<user_query, plannerVars, data, agentVars, rule_calls, current_time, calls, pipeVars>>

GenericNext == GenericApply

GenericSpec == GenericInit /\ [][GenericNext]_vars

---------------------------------------------------------------------------
(* Memory (memory.py): add.  An entry is kept by its content; metadata is  *)
(* always the default {}.                                                  *)

\* dict.get(k, default)
DictGet(d, k, default) == IF k \in DOMAIN d THEN d[k] ELSE default

\* Memory.add(category, item)
MemoryAdd(mem, category, item) ==
    DictSet(mem, category,
            Append(DictGet(mem, category, <<>>),
                   [content |-> item, metadata |-> <<>>]))

---------------------------------------------------------------------------
(* BedrockAgent.analyze_discrepancies (bedrock_agent.py)                   *)
(* The model's reply is the environment's choice: the call raises, the     *)
(* text is no JSON, the JSON is no list, or the JSON is a list.            *)

AiRecord(idx) ==
    [type |-> "business_rule_violation", severity |-> "medium",
     row_indices |-> <<idx>>, fields |-> <<F_price>>]

LlmReplies ==
    { [kind |-> "raises", items |-> <<>>],
      [kind |-> "malformed", items |-> <<>>],
      [kind |-> "not_list", items |-> <<>>],
      [kind |-> "list", items |-> <<>>],
      [kind |-> "list", items |-> <<AiRecord(0)>>],
      [kind |-> "list", items |-> <<AiRecord(7)>>] }

\* whether analyze_discrepancies returns before it invokes the model
AnalyzeSkips(query_result) ==
    \/ DOMAIN query_result = {}
    \/ "data" \notin DOMAIN query_result
    \/ query_result["data"] = <<>>

\* BedrockAgent.analyze_discrepancies(query_result, business_rules)
AnalyzeDiscrepancies(query_result, llm) ==
    IF AnalyzeSkips(query_result) THEN <<>>
    ELSE IF llm.kind = "list" THEN llm.items
    ELSE <<>>

---------------------------------------------------------------------------
(* DiscrepancyAgent: business rules and check_discrepancies                *)
(* The registry is a dict in insertion order: a sequence of <<name, rule>> *)
(* pairs with distinct names; a rule is a dict of strings.  A rule query   *)
(* is a token that tells what the data source does with it.                *)

\* mutant: names already registered keep their first definition
SetBusinessRules_KeepFirst(registered, rules) ==
    registered \o SelectSeq(rules,
        LAMBDA r : \A i \in 1..Len(registered) : registered[i][1] # r[1])

\* DiscrepancyAgent.set_business_rules: self.business_rules = rules
SetBusinessRules(registered, rules) == rules

\* the names for which the agent has a _check_<name> method
NativeChecks == {"price_consistency", "inventory_balance"}

\* callable(rule["check_function"])
Callable(fn) == fn \in {"fn_returns", "fn_raises"}

\* what a user's check function returns when it returns
PredicateRecords(batch) ==
    << [type |-> "custom", severity |-> "medium",
        row_indices |-> <<Len(batch) - 1>>, fields |-> <<>>] >>

\* cursor.execute(sql_query) raises
RuleQueryFails(sql) == sql = "SQL_FAILS"

\* cursor.fetchall() after a rule query, rows as dict(zip(columns, row))
RuleQueryRows(sql) ==
    IF sql = "SQL_TWO_ROWS"
    THEN << <<(<<F_ID, "1">>)>>, <<(<<F_ID, "2">>)>> >>
    ELSE <<>>

RuleQueryRecord(rule, row) ==
    [type |-> DictGet(rule, "type", "business_rule"),
     severity |-> DictGet(rule, "severity", "medium"),
     message |-> DictGet(rule, "message", "Business rule violated"),
     rule_name |-> DictGet(rule, "name", "unnamed"),
     details |-> row]

\* mutant: a failing rule query raises instead of being logged
ExecuteRuleQuery_Propagates(name, rule) ==
    LET sql == DictGet(rule, "sql_query", "")
    IN  IF sql = "" THEN [raised |-> FALSE, recs |-> <<>>, calls |-> <<>>]
        ELSE [raised |-> RuleQueryFails(sql),
              recs |-> IF RuleQueryFails(sql) THEN <<>>
                       ELSE [k \in 1..Len(RuleQueryRows(sql)) |->
                                RuleQueryRecord(rule, RuleQueryRows(sql)[k])],
              calls |-> << <<"rule_query", name>> >>]

\* DiscrepancyAgent._execute_rule_query(rule)
ExecuteRuleQuery(name, rule) ==
    LET sql == DictGet(rule, "sql_query", "")
    IN  IF sql = "" THEN [raised |-> FALSE, recs |-> <<>>, calls |-> <<>>]
        ELSE [raised |-> FALSE,
              recs |-> IF RuleQueryFails(sql) THEN <<>>
                       ELSE [k \in 1..Len(RuleQueryRows(sql)) |->
                                RuleQueryRecord(rule, RuleQueryRows(sql)[k])],
              calls |-> << <<"rule_query", name>> >>]

\* mutant: the rule's predicate is tried before the native check
ApplyRule_PredicateFirst(name, rule, batch) ==
    IF "check_function" \in DOMAIN rule /\ Callable(rule["check_function"])
    THEN [raised |-> rule["check_function"] = "fn_raises",
          recs |-> IF rule["check_function"] = "fn_raises" THEN <<>>
                   ELSE PredicateRecords(batch),
          calls |-> << <<"check_function", name>> >>]
    ELSE IF name \in NativeChecks
    THEN [raised |-> FALSE, recs |-> <<>>, calls |-> << <<"native", name>> >>]
    ELSE IF "sql_query" \in DOMAIN rule
    THEN ExecuteRuleQuery(name, rule)
    ELSE [raised |-> FALSE, recs |-> <<>>, calls |-> <<>>]

\* the body of the loop of _apply_business_rules for one rule
ApplyRule(name, rule, batch) ==
    IF name \in NativeChecks
    THEN [raised |-> FALSE, recs |-> <<>>, calls |-> << <<"native", name>> >>]
    ELSE IF "check_function" \in DOMAIN rule /\ Callable(rule["check_function"])
    THEN [raised |-> rule["check_function"] = "fn_raises",
          recs |-> IF rule["check_function"] = "fn_raises" THEN <<>>
                   ELSE PredicateRecords(batch),
          calls |-> << <<"check_function", name>> >>]
    ELSE IF "sql_query" \in DOMAIN rule
    THEN ExecuteRuleQuery(name, rule)
    ELSE [raised |-> FALSE, recs |-> <<>>, calls |-> <<>>]

\* DiscrepancyAgent._apply_business_rules: rules n.. of the registry; an
\* exception of a check function ends the loop and propagates
RECURSIVE ApplyBusinessRules(_, _, _)
ApplyBusinessRules(rules, batch, n) ==
    IF n > Len(rules) THEN [raised |-> FALSE, recs |-> <<>>, calls |-> <<>>]
    ELSE LET one == ApplyRule(rules[n][1], rules[n][2], batch)
         IN  IF one.raised THEN one
             ELSE LET rest == ApplyBusinessRules(rules, batch, n + 1)
                  IN  [raised |-> rest.raised,
                       recs |-> one.recs \o rest.recs,
                       calls |-> one.calls \o rest.calls]

\* mutant: the early return taken only for a data list that is there and empty
CheckSkips_DataKeyOnly(query_result) ==
    "data" \in DOMAIN query_result /\ query_result["data"] = <<>>

\* mutant: check_discrepancies without the early return on an empty batch
CheckSkips_NoDataGuard(query_result) == DOMAIN query_result = {}

\* the two early returns of check_discrepancies
CheckSkips(query_result) ==
    \/ DOMAIN query_result = {}
    \/ DictGet(query_result, "data", <<>>) = <<>>

\* analyze_discrepancies: json.dumps(business_rules), outside the try, raises
\* TypeError for a registry that holds a function
AnalyzeRaises(query_result, rules) ==
    /\ ~AnalyzeSkips(query_result)
    /\ \E n \in 1..Len(rules) :
          /\ "check_function" \in DOMAIN rules[n][2]
          /\ Callable(rules[n][2]["check_function"])

\* mutant: the generic records are put before the analyzer's
CheckDiscrepancies_GenericFirst(ctx, rules, bedrock, llm) ==
    LET query_result == DictGet(ctx, "query_result", <<>>)
        batch == DictGet(query_result, "data", <<>>)
        use_ai == bedrock /\ rules # <<>>
        ai == IF use_ai THEN AnalyzeDiscrepancies(query_result, llm) ELSE <<>>
        generic == ApplyGenericChecks(batch)
        business == ApplyBusinessRules(rules, batch, 1)
        all == generic \o ai \o business.recs
        head == (IF use_ai THEN << <<"ai", llm.kind>> >> ELSE <<>>)
                    \o << <<"generic", "">> >>
    IN  IF CheckSkips(query_result)
        THEN [raised |-> FALSE, discrepancies |-> <<>>, calls |-> <<>>,
              stored |-> FALSE]
        ELSE IF use_ai /\ AnalyzeRaises(query_result, rules)
        THEN [raised |-> TRUE, discrepancies |-> <<>>,
              calls |-> << <<"ai", "not_serializable">> >>, stored |-> FALSE]
        ELSE IF business.raised
        THEN [raised |-> TRUE, discrepancies |-> <<>>,
              calls |-> head \o business.calls, stored |-> FALSE]
        ELSE [raised |-> FALSE, discrepancies |-> all,
              calls |-> head \o business.calls, stored |-> all # <<>>]

\* DiscrepancyAgent.check_discrepancies(context): what it returns (or that it
\* raised), what it invoked, and whether it stored the list in memory
CheckDiscrepancies(ctx, rules, bedrock, llm) ==
    LET query_result == DictGet(ctx, "query_result", <<>>)
        batch == DictGet(query_result, "data", <<>>)
        use_ai == bedrock /\ rules # <<>>
        ai == IF use_ai THEN AnalyzeDiscrepancies(query_result, llm) ELSE <<>>
        generic == ApplyGenericChecks(batch)
        business == ApplyBusinessRules(rules, batch, 1)
        all == ai \o generic \o business.recs
        head == (IF use_ai THEN << <<"ai", llm.kind>> >> ELSE <<>>)
                    \o << <<"generic", "">> >>
    IN  IF CheckSkips(query_result)
        THEN [raised |-> FALSE, discrepancies |-> <<>>, calls |-> <<>>,
              stored |-> FALSE]
        ELSE IF use_ai /\ AnalyzeRaises(query_result, rules)
        THEN [raised |-> TRUE, discrepancies |-> <<>>,
              calls |-> << <<"ai", "not_serializable">> >>, stored |-> FALSE]
        ELSE IF business.raised
        THEN [raised |-> TRUE, discrepancies |-> <<>>,
              calls |-> head \o business.calls, stored |-> FALSE]
        ELSE [raised |-> FALSE, discrepancies |-> all,
              calls |-> head \o business.calls, stored |-> all # <<>>]

---------------------------------------------------------------------------
(* SchemaAgent (schema_agent.py)                                           *)
(* schemas is the list _get_schemas returned; schema_cache maps a schema   *)
(* to a dict table -> column list.  None is <<>> (a name is never empty).  *)

QuoteChars == {"'", "\""}

\* Python's `a or b` on strings and lists
Or(a, b) == IF a # <<>> THEN a ELSE b

\* One match of  prefix ['\"]?([a-zA-Z0-9_]+)['\"]? suffix  anchored at i:
\* whether it matches, group 1, and the position after the match
IdentMatchAt(text, i, prefix, suffix) ==
    LET j  == i + Len(prefix)
        j2 == IF j <= Len(text) /\ text[j] \in QuoteChars THEN j + 1 ELSE j
        e  == j2 + WordRun(text, j2)
        e2 == IF e <= Len(text) /\ text[e] \in QuoteChars THEN e + 1 ELSE e
    IN  IF /\ StartsAt(text, i, prefix)
           /\ WordRun(text, j2) > 0
           /\ StartsAt(text, e2, suffix)
        THEN [ok |-> TRUE, group |-> SubSeq(text, j2, e - 1),
              end |-> e2 + Len(suffix)]
        ELSE [ok |-> FALSE, group |-> <<>>, end |-> i]

\* a pattern is [prefixes, suffix]; "table[s]? " is the prefixes
\* <<"tables ", "table ">>, tried in the order the greedy s? tries them
RECURSIVE PatternMatchAt(_, _, _, _)
PatternMatchAt(text, i, pat, n) ==
    IF n > Len(pat.prefixes) THEN [ok |-> FALSE, group |-> <<>>, end |-> i]
    ELSE IF IdentMatchAt(text, i, pat.prefixes[n], pat.suffix).ok
         THEN IdentMatchAt(text, i, pat.prefixes[n], pat.suffix)
         ELSE PatternMatchAt(text, i, pat, n + 1)

\* re.search(pattern, text[i:]): the leftmost match from position i on
RECURSIVE PatternSearch(_, _, _)
PatternSearch(text, i, pat) ==
    IF i > Len(text) THEN [ok |-> FALSE, group |-> <<>>, end |-> i]
    ELSE IF PatternMatchAt(text, i, pat, 1).ok
         THEN PatternMatchAt(text, i, pat, 1)
         ELSE PatternSearch(text, i + 1, pat)

\* [m.group(1) for m in re.finditer(pattern, text)], from position i on
RECURSIVE PatternFindAll(_, _, _)
PatternFindAll(text, i, pat) ==
    LET m == PatternSearch(text, i, pat)
    IN  IF ~m.ok THEN <<>>
        ELSE <<m.group>> \o PatternFindAll(text, m.end, pat)

\* schema_patterns of _extract_schema_from_query
schema_patterns ==
    << [prefixes |-> <<<<"i","n"," ","s","c","h","e","m","a"," ">>>>, suffix |-> <<>>],
       [prefixes |-> <<<<"f","r","o","m"," ","s","c","h","e","m","a"," ">>>>, suffix |-> <<>>],
       [prefixes |-> <<<<"d","a","t","a","b","a","s","e"," ">>>>, suffix |-> <<>>] >>

\* table_patterns of _extract_tables_from_query
table_patterns ==
    << [prefixes |-> <<<<"f","r","o","m"," ">>>>, suffix |-> <<>>],
       [prefixes |-> <<<<"t","a","b","l","e","s"," ">>, <<"t","a","b","l","e"," ">>>>, suffix |-> <<>>],
       [prefixes |-> <<<<"i","n"," ">>>>, suffix |-> <<" ","t","a","b","l","e">>] >>

\* SchemaAgent._extract_schema_from_query: patterns n..
RECURSIVE ExtractSchemaFrom(_, _, _)
ExtractSchemaFrom(query_lower, schemas_, n) ==
    IF n > Len(schema_patterns) THEN <<>>
    ELSE LET m == PatternSearch(query_lower, 1, schema_patterns[n])
         IN  IF m.ok /\ m.group \in Range(schemas_)
             THEN m.group
             ELSE ExtractSchemaFrom(query_lower, schemas_, n + 1)

ExtractSchemaFromQuery(query, schemas_) ==
    ExtractSchemaFrom(Lower(query), schemas_, 1)

\* "the table exists in at least one schema"
TableKnown(table_name, schemas_, cache) ==
    \E k \in 1..Len(schemas_) :
        schemas_[k] \in DOMAIN cache /\ table_name \in DOMAIN cache[schemas_[k]]

\* SchemaAgent._extract_tables_from_query: patterns n..
RECURSIVE ExtractTablesFrom(_, _, _, _)
ExtractTablesFrom(query_lower, schemas_, cache, n) ==
    IF n > Len(table_patterns) THEN <<>>
    ELSE SelectSeq(PatternFindAll(query_lower, 1, table_patterns[n]),
                   LAMBDA t : TableKnown(t, schemas_, cache))
            \o ExtractTablesFrom(query_lower, schemas_, cache, n + 1)

ExtractTablesFromQuery(query, schemas_, cache) ==
    ExtractTablesFrom(Lower(query), schemas_, cache, 1)

\* re.findall(r'\b[a-zA-Z0-9_]{3,}\b', text): the maximal runs of word
\* characters of length at least 3, as a set
Words(text) ==
    {SubSeq(text, i, i + WordRun(text, i) - 1) :
        i \in {k \in 1..Len(text) :
                 /\ WordRun(text, k) >= 3
                 /\ (k = 1 \/ ~IsWordChar(text[k - 1]))}}

\* scores are exact fractions <<numerator, denominator>>
ScoreLess(a, b) == a[1] * b[2] < b[1] * a[2]

ScoreMax(S) == CHOOSE a \in S : \A b \in S : ~ScoreLess(a, b)

\* the code points of the word characters, in order
AsciiOrder == DigitChars \o UpperChars \o <<"_">> \o LowerChars

Ord(c) == CHOOSE k \in 1..Len(AsciiOrder) : AsciiOrder[k] = c

\* Python's a < b on strings of word characters
RECURSIVE StrLess(_, _)
StrLess(a, b) ==
    IF b = <<>> THEN FALSE
    ELSE IF a = <<>> THEN TRUE
    ELSE IF Head(a) # Head(b) THEN Ord(Head(a)) < Ord(Head(b))
    ELSE StrLess(Tail(a), Tail(b))

\* mutant: the partial similarity taken without the factor 0.8
TableScore_Unscaled(table, words) ==
    LET table_lower == Lower(table)
        ends_s == table_lower # <<>> /\ table_lower[Len(table_lower)] = "s"
        singular == IF ends_s THEN SubSeq(table_lower, 1, Len(table_lower) - 1)
                    ELSE table_lower
        plural == IF ends_s THEN table_lower ELSE Append(table_lower, "s")
        partial == {<<Len(word),
                      (IF Len(word) > Len(table_lower) THEN Len(word)
                       ELSE Len(table_lower))>> :
                    word \in {x \in words : \/ Contains(x, table_lower)
                                            \/ Contains(table_lower, x)}}
    IN  IF table_lower \in words THEN <<1, 1>>
        ELSE IF singular \in words \/ plural \in words THEN <<9, 10>>
        ELSE IF partial # {} THEN ScoreMax(partial)
        ELSE <<0, 1>>

\* the score of one table against the words, or <<0, 1>> when it gets none
TableScore(table, words) ==
    LET table_lower == Lower(table)
        ends_s == table_lower # <<>> /\ table_lower[Len(table_lower)] = "s"
        singular == IF ends_s THEN SubSeq(table_lower, 1, Len(table_lower) - 1)
                    ELSE table_lower
        plural == IF ends_s THEN table_lower ELSE Append(table_lower, "s")
        partial == {<<8 * Len(word),
                      10 * (IF Len(word) > Len(table_lower) THEN Len(word)
                            ELSE Len(table_lower))>> :
                    word \in {x \in words : \/ Contains(x, table_lower)
                                            \/ Contains(table_lower, x)}}
    IN  IF table_lower \in words THEN <<1, 1>>
        ELSE IF singular \in words \/ plural \in words THEN <<9, 10>>
        ELSE IF partial # {} THEN ScoreMax(partial)
        ELSE <<0, 1>>

\* mutant: equal scores ordered by ascending table name
PairLess_NameAscending(a, b) ==
    \/ ScoreLess(a[1], b[1])
    \/ (~ScoreLess(b[1], a[1]) /\ StrLess(b[2], a[2]))

\* (score, table) tuples compare by score, then by table name
PairLess(a, b) ==
    \/ ScoreLess(a[1], b[1])
    \/ (~ScoreLess(b[1], a[1]) /\ StrLess(a[2], b[2]))

\* sorted(pairs, reverse=True)
RECURSIVE SortedDescending(_)
SortedDescending(S) ==
    IF S = {} THEN <<>>
    ELSE LET top == CHOOSE a \in S : \A b \in S \ {a} : PairLess(b, a)
         IN  <<top>> \o SortedDescending(S \ {top})

\* the [:3] of _infer_tables_from_query
top_tables == 3

\* list[:n]
Take(seq, n) == SubSeq(seq, 1, IF Len(seq) < n THEN Len(seq) ELSE n)

\* SchemaAgent._infer_tables_from_query(query, schema)
InferTablesFromQuery(query, schema, cache) ==
    IF schema = <<>> \/ schema \notin DOMAIN cache THEN <<>>
    ELSE LET words == Words(Lower(query))
             scored == {<<TableScore(t, words), t>> : t \in DOMAIN cache[schema]}
             table_scores == {pr \in scored : pr[1][1] > 0}
             sorted_tables == SortedDescending(table_scores)
             kept == SelectSeq(sorted_tables, LAMBDA pr : ~ScoreLess(pr[1], <<1, 2>>))
         IN  Take([k \in 1..Len(kept) |-> kept[k][2]], top_tables)

\* the table_columns of the result of get_schema_info
TableColumns(tables, schema, cache) ==
    [t \in {x \in Range(tables) :
               schema \in DOMAIN cache /\ x \in DOMAIN cache[schema]} |->
        cache[schema][t]]

\* get_schema_info: the dict it builds from its selection
SchemaInfo(schemas_, schema, tables, cache) ==
    [k \in {"available_schemas", "selected_schema", "selected_tables",
            "table_columns"} |->
        CASE k = "available_schemas" -> schemas_
          [] k = "selected_schema" -> schema
          [] k = "selected_tables" -> tables
          [] OTHER -> TableColumns(tables, schema, cache)]

\* get_schema_info: "if not suggested_schema and self.schemas"
DefaultSchema(suggested_schema, schemas_) ==
    IF suggested_schema = <<>> /\ schemas_ # <<>>
    THEN schemas_[1] ELSE suggested_schema

\* get_schema_info: "if not suggested_tables"
DefaultTables(suggested_tables, query, schema, cache) ==
    IF suggested_tables = <<>>
    THEN InferTablesFromQuery(query, schema, cache)
    ELSE suggested_tables

\* get_schema_info from the schema it settled on
SelectTables(query, suggested_tables, schemas_, schema, cache) ==
    SchemaInfo(schemas_, schema,
               DefaultTables(suggested_tables, query, schema, cache), cache)

\* SchemaAgent.get_schema_info(query, context): the dict it returns
GetSchemaInfo(query, ctx, schemas_, cache) ==
    SelectTables(query,
                 Or(DictGet(ctx, "suggested_tables", <<>>),
                    ExtractTablesFromQuery(query, schemas_, cache)),
                 schemas_,
                 DefaultSchema(Or(DictGet(ctx, "suggested_schema", <<>>),
                                  ExtractSchemaFromQuery(query, schemas_)),
                               schemas_),
                 cache)

---------------------------------------------------------------------------
(* QueryAgent.execute_query: the result dicts (query_agent.py, db_utils.py) *)

\* format_oracle_results(cursor) plus the sql_query key; rows arrive as dicts
SuccessResult(batch) ==
    [k \in {"columns", "data", "row_count", "truncated", "rowcount", "sql_query"} |->
        CASE k = "columns" ->
                 IF batch = <<>> THEN <<>>
                 ELSE [c \in 1..Len(batch[1]) |-> batch[1][c][1]]
          [] k = "data" -> batch
          [] k = "row_count" -> Len(batch)
          [] k = "truncated" -> Len(batch) >= max_rows
          [] k = "rowcount" -> Len(batch)
          [] OTHER -> "SQL"]

\* the dict execute_query returns when execution raised
ErrorResult ==
    [k \in {"error", "sql_query"} |-> IF k = "error" THEN "ORA-00942" ELSE "SQL"]

---------------------------------------------------------------------------
(* DiscSpec: check_discrepancies applied to small contexts and registries *)

RuleDefs ==
    { [description |-> "Test rule"],
      [check_function |-> "fn_returns"],
      [check_function |-> "fn_raises"],
      [check_function |-> "not_callable", sql_query |-> "SQL_TWO_ROWS"],
      [name |-> "Inventory Balance", severity |-> "high",
       sql_query |-> "SQL_TWO_ROWS"],
      [sql_query |-> "SQL_FAILS"] }

RuleNames == {"price_consistency", "rule1", "rule2"}

Registries ==
    {r \in UNION {[1..n -> RuleNames \X RuleDefs] : n \in 0..MaxRules} :
        \A a, b \in 1..Len(r) : a # b => r[a][1] # r[b][1]}

DiscBatches ==
    { << <<(<<F_id, "1">>), (<<F_price, "2">>)>> >>,
      << <<(<<F_id, "1">>), (<<F_price, None>>)>> >>,
      << <<(<<F_id, "1">>)>>, <<(<<F_id, "1">>)>> >> }

QueryResults ==
    {<<>>, ErrorResult} \cup {SuccessResult(b) : b \in DiscBatches \cup {<<>>}}

DiscContexts ==
    {[k \in {"user_query"} |-> W_orders]}
        \cup {[k \in {"user_query", "query_result"} |->
                  IF k = "user_query" THEN W_orders ELSE qr] : qr \in QueryResults}

DiscInit ==
    /\ rule_calls = <<>>
    /\ current_time = 0
    /\ pc = "context"
    /\ context \in DiscContexts
    /\ business_rules \in Registries
    /\ bedrock_agent \in BOOLEAN
    /\ memory = <<>>
    /\ calls = <<>>
    /\ discrepancies = <<>>
    /\ data = <<>>
    /\ user_query = <<>>
    /\ templates = DefineTemplates
    /\ param_maps = <<>>
    /\ plan = NoPlan
    /\ PipelineUnused

DiscCheck ==
    /\ pc = "context"
    /\ \E llm \in LlmReplies :
          LET r == CheckDiscrepancies(context, business_rules, bedrock_agent, llm)
          IN  /\ discrepancies' = r.discrepancies
              /\ calls' = r.calls
              /\ memory' = IF r.stored
                           THEN MemoryAdd(memory, "discrepancies", r.discrepancies)
                           ELSE memory
              /\ pc' = IF r.raised THEN "raised" ELSE "checked"
    /\ UNCHANGED <<user_query, plannerVars, data, context, business_rules,
                   bedrock_agent, rule_calls, current_time, pipeVars>>

DiscNext == DiscCheck

DiscSpec == DiscInit /\ [][DiscNext]_vars

---------------------------------------------------------------------------
(* SQLAgent.query and SQLAgent._execute_plan (agent.py)                    *)

\* mutant: the schema selection filed under the category of the contexts
StoreSchemaSelection_AsContext(mem, schema_info) ==
    MemoryAdd(mem, "query_contexts", schema_info)

\* SchemaAgent.get_schema_info: self.memory.add("schema_selections", result)
StoreSchemaSelection(mem, schema_info) ==
    MemoryAdd(mem, "schema_selections", schema_info)

\* mutant: the executed query is archived with the requests
StoreExecutedQuery_AsUserQuery(mem, query) ==
    MemoryAdd(mem, "user_queries",
              [user_query |-> query, sql_query |-> "SQL"])

\* QueryAgent.execute_query: self.memory.add("executed_queries", ...)
StoreExecutedQuery(mem, query) ==
    MemoryAdd(mem, "executed_queries",
              [user_query |-> query, sql_query |-> "SQL"])

\* QueryAgent.execute_query, the ways through its try block: nothing raises;
\* cursor(), execute or format_oracle_results raises, before the store is
\* written; cursor.close() raises, after the store is written
ExecuteOutcomes == {"ok", "execute_raises", "close_raises"}

\* QueryAgent.execute_query: the dict it returns; batch is what the data
\* source returned, failed whether the try block raised
ExecuteQueryResult(failed, batch) ==
    IF failed THEN ErrorResult ELSE SuccessResult(batch)

\* mutant: the summary reads its result under the key "result"
ExecutePlanReturn_WrongKey(ctx, p) ==
    [k \in {"result", "discrepancies", "schema_used", "tables_used", "plan"} |->
        CASE k = "result" -> DictGet(ctx, "result", <<>>)
          [] k = "discrepancies" -> DictGet(ctx, "discrepancies", <<>>)
          [] k = "schema_used" ->
                 DictGet(DictGet(ctx, "schema_info", <<>>), "selected_schema", <<>>)
          [] k = "tables_used" ->
                 DictGet(DictGet(ctx, "schema_info", <<>>), "selected_tables", <<>>)
          [] OTHER -> p]

\* the dict _execute_plan returns
ExecutePlanReturn(ctx, p) ==
    [k \in {"result", "discrepancies", "schema_used", "tables_used", "plan"} |->
        CASE k = "result" -> DictGet(ctx, "query_result", <<>>)
          [] k = "discrepancies" -> DictGet(ctx, "discrepancies", <<>>)
          [] k = "schema_used" ->
                 DictGet(DictGet(ctx, "schema_info", <<>>), "selected_schema", <<>>)
          [] k = "tables_used" ->
                 DictGet(DictGet(ctx, "schema_info", <<>>), "selected_tables", <<>>)
          [] OTHER -> p]

\* the context keys a stage reads with context.get
StageReads(agent) ==
    CASE agent = "query" -> {"schema_info"}
      [] agent = "discrepancy" -> {"query_result", "schema_info"}
      [] OTHER -> {}

---------------------------------------------------------------------------
(* Spec: one call of query() on an agent, after any set_business_logic *)

F_NAME == <<"N","A","M","E">>

CatalogLower ==
    [schemas |-> <<W_hr, W_sales>>,
     cache |-> [s \in {W_hr, W_sales} |->
                  IF s = W_hr THEN [t \in {W_staff} |-> <<F_id>>]
                  ELSE [t \in {W_orders, W_order} |->
                          IF t = W_orders THEN <<F_id, F_price>> ELSE <<F_id>>]]]

CatalogUpper ==
    [schemas |-> <<W_SALES>>,
     cache |-> [s \in {W_SALES} |->
                  [t \in {W_ORDERS, W_CUSTOMERS} |->
                      IF t = W_ORDERS THEN <<F_ID, F_price>> ELSE <<F_ID, F_NAME>>]]]

\* the catalog could not be read when the agent was built
CatalogEmpty == [schemas |-> <<>>, cache |-> <<>>]

Catalogs == {CatalogLower, CatalogUpper, CatalogEmpty}

PipelineRequests ==
    { <<"s","h","o","w"," ","o","r","d","e","r","s">>,
      <<"c","h","e","c","k"," ","t","a","b","l","e"," ","o","r","d","e","r","s">>,
      <<"l","i","s","t"," ","t","a","b","l","e"," ","f","o","o">>,
      <<"e","r","r","o","r","s"," ","i","n"," ","s","c","h","e","m","a"," ","h","r">>,
      <<"V","e","r","i","f","y"," ","d","a","t","a","b","a","s","e"," ","s","a","l","e","s"," ","t","a","b","l","e","s"," ","s","t","a","f","f">> }

PipelineRegistries ==
    { << <<"rule1", [check_function |-> "fn_raises"]>> >>,
      << <<"price_consistency", [sql_query |-> "SQL_TWO_ROWS"]>>,
         <<"rule2", [check_function |-> "fn_returns"]>> >>,
      << <<"rule1", [sql_query |-> "SQL_FAILS"]>>,
         <<"rule2", [name |-> "Inventory Balance", severity |-> "high",
                     sql_query |-> "SQL_TWO_ROWS"]>> >> }

\* what Memory._load_from_disk found
StoredMemories ==
    { <<>>,
      [c \in {"user_queries", "query_contexts"} |->
          IF c = "user_queries"
          THEN <<[content |-> W_orders, metadata |-> <<>>]>>
          ELSE <<[content |-> [k \in {"user_query"} |-> W_orders],
                  metadata |-> <<>>]>>] }

Init ==
    /\ rule_calls = <<>>
    /\ current_time = 0
    /\ pc = "idle"
    /\ \E cat \in Catalogs : schemas = cat.schemas /\ schema_cache = cat.cache
    /\ sub_agents \in BOOLEAN
    /\ memory \in StoredMemories
    /\ templates = DefineTemplates
    /\ param_maps = <<>>
    /\ bedrock_agent = TRUE
    /\ business_rules = <<>>
    /\ user_query = <<>>
    /\ plan = NoPlan
    /\ context = <<>>
    /\ step = 0
    /\ result = <<>>
    /\ mem0 = <<>>
    /\ missed = {}
    /\ stages = <<>>
    /\ calls = <<>>
    /\ data = <<>>
    /\ discrepancies = <<>>

\* SQLAgent.set_business_logic(rules)
SetBusinessLogic ==
    /\ pc = "idle"
    /\ \E rules \in PipelineRegistries :
          /\ business_rules' = IF sub_agents
                                THEN SetBusinessRules(business_rules, rules)
                                ELSE business_rules
          /\ rule_calls' = IF Len(rule_calls) < 2 THEN Append(rule_calls, rules)
                            ELSE <<rule_calls[2], rules>>
    /\ UNCHANGED <<pc, user_query, plannerVars, data, discrepancies, context,
                   memory, bedrock_agent, current_time, calls, pipeVars>>

\* SQLAgent.query: self.memory.add("user_queries", user_query)
QueryReceive ==
    /\ pc = "idle"
    /\ \E q \in PipelineRequests :
          /\ user_query' = q
          /\ memory' = MemoryAdd(memory, "user_queries", q)
    /\ mem0' = memory
    /\ pc' = "received"
    /\ UNCHANGED <<plannerVars, data, discrepancies, context, business_rules,
                   bedrock_agent, rule_calls, current_time, calls, schemas, schema_cache, sub_agents,
                   step, result, missed, stages>>

\* SQLAgent.query: create_plan, and the first line of _execute_plan
QueryPlan ==
    /\ pc = "received"
    /\ plan' = CreatePlan(templates, user_query)
    /\ context' = [k \in {"user_query"} |-> user_query]
    /\ step' = 1
    /\ pc' = "executing"
    /\ UNCHANGED <<user_query, templates, param_maps, data, discrepancies, memory,
                   business_rules, bedrock_agent, rule_calls, current_time, calls, schemas, schema_cache,
                   sub_agents, result, mem0, missed, stages>>

\* the stage the loop of _execute_plan is at
AtStage(agent) ==
    /\ pc = "executing"
    /\ step <= Len(plan.steps)
    /\ plan.steps[step].agent = agent

\* what every stage does besides its own work
StageBegins(agent) ==
    /\ stages' = Append(stages, agent)
    /\ missed' = missed \cup (StageReads(agent) \ DOMAIN context)

\* a stage without sub-agents: self.schema_agent is no attribute
StageRaises ==
    /\ pc' = "raised"
    /\ UNCHANGED <<context, memory, step, calls>>

\* context["schema_info"] = self.schema_agent.get_schema_info(...)
SchemaStageWrites(schema_info) ==
    /\ memory' = StoreSchemaSelection(memory, schema_info)
    /\ context' = DictSet(context, "schema_info", schema_info)
    /\ step' = step + 1
    /\ UNCHANGED <<pc, calls>>

\* _execute_plan: step.agent == "schema"
SchemaStage ==
    /\ AtStage("schema")
    /\ StageBegins("schema")
    /\ IF sub_agents
       THEN SchemaStageWrites(GetSchemaInfo(user_query, context, schemas,
                                            schema_cache))
       ELSE StageRaises
    /\ UNCHANGED <<user_query, plannerVars, data, discrepancies,
                   business_rules, bedrock_agent, rule_calls, current_time, schemas, schema_cache,
                   sub_agents, result, mem0>>

\* _execute_plan: step.agent == "query"
QueryStage ==
    /\ AtStage("query")
    /\ StageBegins("query")
    /\ IF sub_agents
       THEN \E outcome \in ExecuteOutcomes, batch \in DiscBatches \cup {<<>>} :
               /\ outcome # "ok" => batch = <<>>
               /\ memory' = IF outcome = "execute_raises" THEN memory
                            ELSE StoreExecutedQuery(memory, user_query)
               /\ context' = DictSet(context, "query_result",
                                     ExecuteQueryResult(outcome # "ok", batch))
               /\ calls' = calls \o << <<"generate_sql", "">>,
                                       <<"execute", outcome>> >>
               /\ step' = step + 1
               /\ UNCHANGED pc
       ELSE StageRaises
    /\ UNCHANGED <<user_query, plannerVars, data, discrepancies,
                   business_rules, bedrock_agent, rule_calls, current_time, schemas, schema_cache,
                   sub_agents, result, mem0>>

\* context["discrepancies"] = self.discrepancy_agent.check_discrepancies(...)
\* for the outcome r of the call
DiscrepancyStageWrites(r) ==
    /\ calls' = calls \o r.calls
    /\ IF r.raised
       THEN /\ pc' = "raised"
            /\ UNCHANGED <<context, memory, step>>
       ELSE /\ memory' = IF r.stored
                         THEN MemoryAdd(memory, "discrepancies", r.discrepancies)
                         ELSE memory
            /\ context' = DictSet(context, "discrepancies", r.discrepancies)
            /\ step' = step + 1
            /\ UNCHANGED pc

\* _execute_plan: step.agent == "discrepancy"
DiscrepancyStage ==
    /\ AtStage("discrepancy")
    /\ StageBegins("discrepancy")
    /\ IF sub_agents
       THEN \E llm \in LlmReplies :
               DiscrepancyStageWrites(
                   CheckDiscrepancies(context, business_rules, bedrock_agent,
                                      llm))
       ELSE StageRaises
    /\ UNCHANGED <<user_query, plannerVars, data, discrepancies,
                   business_rules, bedrock_agent, rule_calls, current_time, schemas, schema_cache,
                   sub_agents, result, mem0>>

\* _execute_plan after the loop: archive the context, return the summary
Finish ==
    /\ pc = "executing"
    /\ step > Len(plan.steps)
    /\ memory' = MemoryAdd(memory, "query_contexts", context)
    /\ result' = ExecutePlanReturn(context, plan)
    /\ pc' = "done"
    /\ UNCHANGED <<user_query, plannerVars, data, discrepancies, context,
                   business_rules, bedrock_agent, rule_calls, current_time,
                   calls, schemas, schema_cache, sub_agents, step, mem0,
                   missed, stages>>

Next ==
    \/ SetBusinessLogic
    \/ QueryReceive
    \/ QueryPlan
    \/ SchemaStage
    \/ QueryStage
    \/ DiscrepancyStage
    \/ Finish

Spec == Init /\ [][Next]_vars

---------------------------------------------------------------------------
(* SchemaSpec: get_schema_info applied to small requests, hints and        *)
(* catalogs.  A catalog lists its schemas in the order of ORDER BY         *)
(* username.                                                               *)

CatalogTies ==
    [schemas |-> <<W_hr, W_sales>>,
     cache |-> [s \in {W_hr, W_sales} |->
                  IF s = W_hr
                  THEN [t \in {W_ord, W_order, W_orders, W_staff} |-> <<F_id>>]
                  ELSE [t \in {W_orders} |-> <<F_id, F_price>>]]]

SchemaCatalogs == {CatalogTies, CatalogUpper, CatalogEmpty}

SchemaFragments ==
    { <<"f","r","o","m"," ","o","r","d","e","r","s"," ">>,
      <<"t","a","b","l","e"," ","o","r","d","e","r","s"," ">>,
      <<"o","r","d","e","r","s"," ">>,
      <<"s","t","a","f","f"," ">>,
      <<"i","n"," ","s","c","h","e","m","a"," ","s","a","l","e","s"," ">>,
      <<"d","a","t","a","b","a","s","e"," ","h","r"," ">>,
      <<"O","r","d"," ">>,
      <<"s","h","o","w"," ">> }

SchemaRequests ==
    {Concat(fs) :
        fs \in UNION {[1..n -> SchemaFragments] : n \in 1..MaxSchemaFrags}}

\* the context argument of get_schema_info: no hint, or a hint of the form
\* the planner builds
HintContexts ==
    { <<>>,
      [k \in {"suggested_schema"} |-> W_sales],
      [k \in {"suggested_schema"} |-> W_foo],
      [k \in {"suggested_tables"} |-> <<W_orders>>] }

SchemaInit ==
    /\ rule_calls = <<>>
    /\ current_time = 0
    /\ pc = "request"
    /\ user_query \in SchemaRequests
    /\ context \in HintContexts
    /\ \E cat \in SchemaCatalogs : schemas = cat.schemas /\ schema_cache = cat.cache
    /\ memory = <<>>
    /\ result = <<>>
    /\ templates = DefineTemplates
    /\ param_maps = <<>>
    /\ plan = NoPlan
    /\ business_rules = <<>>
    /\ bedrock_agent = FALSE
    /\ calls = <<>>
    /\ data = <<>>
    /\ discrepancies = <<>>
    /\ sub_agents = TRUE
    /\ step = 0
    /\ mem0 = <<>>
    /\ missed = {}
    /\ stages = <<>>

\* get_schema_info: store the result and return it
SchemaResolveReturns(schema_info) ==
    /\ memory' = StoreSchemaSelection(memory, schema_info)
    /\ result' = schema_info

SchemaResolve ==
    /\ pc = "request"
    /\ SchemaResolveReturns(GetSchemaInfo(user_query, context, schemas,
                                          schema_cache))
    /\ pc' = "selected"
    /\ UNCHANGED <<user_query, plannerVars, data, discrepancies, context,
                   business_rules, bedrock_agent, rule_calls, current_time,
                   calls, schemas, schema_cache, sub_agents, step, mem0,
                   missed, stages>>

SchemaNext == SchemaResolve

SchemaSpec == SchemaInit /\ [][SchemaNext]_vars

---------------------------------------------------------------------------
(* Memory (memory.py) with its timestamps                                  *)
(* An entry is [timestamp, content, metadata]; current_time is the value   *)
(* time.time() returns, which grows between calls. get() takes a filter    *)
(* by name: None, or a predicate on the entry.                             *)

\* Memory.__init__: ttl: int = 3600
ttl == 3600

MaxEntries == 3
MaxTime == 3601

\* Memory.add(category, item, metadata) at time.time() = now; "metadata or
\* {}" leaves a dict as it is and <<>> stands for both None and {}
MemoryAddAt(mem, category, item, metadata, now) ==
    DictSet(mem, category,
            Append(DictGet(mem, category, <<>>),
                   [timestamp |-> now, content |-> item, metadata |-> metadata]))

\* filter_func(item) for the predicates used
FilterAccepts(filter_func, item) ==
    filter_func = "content_is_orders" /\ item.content = W_orders

\* mutant: expired entries are kept
Fresh_KeepAll(items, now) == items

\* get: [item for item in items if current_time - item["timestamp"] <= self.ttl]
Fresh(items, now) == SelectSeq(items, LAMBDA item : now - item.timestamp <= ttl)

\* get: if filter_func: items = [item for item in items if filter_func(item)]
Filtered(items, filter_func) ==
    IF filter_func = None THEN items
    ELSE SelectSeq(items, LAMBDA item : FilterAccepts(filter_func, item))

\* the place list.sort(key=timestamp, reverse=True) gives items[i]: after
\* the newer items, and after the earlier items of the same timestamp
SortedPlace(items, i) ==
    1 + Cardinality({j \in 1..Len(items) :
                        \/ items[j].timestamp > items[i].timestamp
                        \/ (items[j].timestamp = items[i].timestamp /\ j < i)})

\* items.sort(key=lambda x: x["timestamp"], reverse=True)
SortByRecency(items) ==
    [k \in 1..Len(items) |->
        items[CHOOSE i \in 1..Len(items) : SortedPlace(items, i) = k]]

\* Memory.get(category, n, filter_func) at time.time() = now
MemoryGet(mem, category, n, filter_func, now) ==
    IF category \notin DOMAIN mem THEN <<>>
    ELSE Take(SortByRecency(Filtered(Fresh(mem[category], now), filter_func)), n)

\* Python's truth value of the category argument
Truthy(category) == category # None /\ category # ""

\* Memory.clear(category)
MemoryClear(mem, category) ==
    IF Truthy(category)
    THEN IF category \in DOMAIN mem THEN DictSet(mem, category, <<>>) ELSE mem
    ELSE <<>>

\* category names callers pass, the empty string among them
MemCategories == {"", "user_queries"}

MemItems == {W_orders, W_staff}

MemMetadata == {<<>>}

GetCounts == {0, 1, 5}

FilterFuncs == {None, "content_is_orders"}

\* seconds between two calls
Elapses == {1800, 1801}

RECURSIVE SumLen(_, _)
SumLen(mem, cats) ==
    IF cats = {} THEN 0
    ELSE LET c == CHOOSE x \in cats : TRUE
         IN  Len(mem[c]) + SumLen(mem, cats \ {c})

\* the number of entries held
EntryCount(mem) == SumLen(mem, DOMAIN mem)

MemoryInit ==
    /\ rule_calls = <<>>
    /\ current_time = 0
    /\ pc = "new"
    /\ memory = <<>>
    /\ calls = <<>>
    /\ result = <<>>
    /\ user_query = <<>>
    /\ templates = <<>>
    /\ param_maps = <<>>
    /\ plan = NoPlan
    /\ data = <<>>
    /\ discrepancies = <<>>
    /\ context = <<>>
    /\ business_rules = <<>>
    /\ bedrock_agent = FALSE
    /\ schemas = <<>>
    /\ schema_cache = <<>>
    /\ sub_agents = FALSE
    /\ step = 0
    /\ mem0 = <<>>
    /\ missed = {}
    /\ stages = <<>>

\* what a call of Memory leaves alone besides its own state
MemoryFrame ==
    UNCHANGED <<user_query, plannerVars, data, discrepancies, context,
                business_rules, bedrock_agent, rule_calls, schemas,
                schema_cache, sub_agents, step, mem0, missed, stages>>

\* memory.add(category, item, metadata)
MemAdd ==
    /\ EntryCount(memory) < MaxEntries
    /\ \E category \in MemCategories, item \in MemItems, metadata \in MemMetadata :
          /\ memory' = MemoryAddAt(memory, category, item, metadata, current_time)
          /\ calls' = <<>>
    /\ pc' = "add"
    /\ result' = <<>>
    /\ UNCHANGED current_time
    /\ MemoryFrame

\* memory.get(category, n, filter_func)
MemGet ==
    /\ \E category \in MemCategories, n \in GetCounts, filter_func \in FilterFuncs :
          /\ result' = MemoryGet(memory, category, n, filter_func, current_time)
          /\ calls' = <<[name |-> "get", category |-> category, n |-> n,
                         filter_func |-> filter_func]>>
    /\ pc' = "get"
    /\ UNCHANGED <<memory, current_time>>
    /\ MemoryFrame

\* memory.clear(category), memory.clear()
MemClear ==
    /\ \E category \in MemCategories \cup {None} :
          /\ memory' = MemoryClear(memory, category)
          /\ calls' = <<[name |-> "clear", category |-> category]>>
    /\ pc' = "clear"
    /\ result' = <<>>
    /\ UNCHANGED current_time
    /\ MemoryFrame

\* time passes between two calls
TimePasses ==
    /\ \E elapsed \in Elapses :
          /\ current_time + elapsed <= MaxTime
          /\ current_time' = current_time + elapsed
    /\ pc' = "sleep"
    /\ calls' = <<>>
    /\ result' = <<>>
    /\ UNCHANGED memory
    /\ MemoryFrame

MemoryNext == MemAdd \/ MemGet \/ MemClear \/ TimePasses

MemorySpec == MemoryInit /\ [][MemoryNext]_vars

---------------------------------------------------------------------------
(* Plan.to_dict / Plan.from_dict (planner.py)                              *)
(* A Plan is [query, steps] with PlanStep records; a dictionary is the     *)
(* sequence of its <<key, value>> items in insertion order, so two         *)
(* dictionaries are equal when they hold the same items in any order.      *)

MaxPlanSteps == 3
MaxConversions == 2

\* d[key]
ItemGet(d, key) == d[CHOOSE i \in 1..Len(d) : d[i][1] = key][2]

\* to_dict: the dictionary of one step
StepToDict(st) ==
    << <<"agent", st.agent>>, <<"action", st.action>>,
       <<"description", st.description>>, <<"params", st.params>> >>

\* Plan.to_dict
ToDict(p) ==
    << <<"query", p.query>>,
       <<"steps", [i \in 1..Len(p.steps) |-> StepToDict(p.steps[i])]>> >>

\* mutant: the step is built without its params (the default {})
StepFromDict_NoParams(step_data) ==
    [agent |-> ItemGet(step_data, "agent"),
     action |-> ItemGet(step_data, "action"),
     description |-> ItemGet(step_data, "description"),
     params |-> <<>>]

\* from_dict: PlanStep(agent=step_data["agent"], ...)
StepFromDict(step_data) ==
    [agent |-> ItemGet(step_data, "agent"),
     action |-> ItemGet(step_data, "action"),
     description |-> ItemGet(step_data, "description"),
     params |-> ItemGet(step_data, "params")]

\* the steps from_dict appends for data["steps"]
StepsFromDict(steps_data) ==
    [i \in 1..Len(steps_data) |-> StepFromDict(steps_data[i])]

\* Plan.from_dict
FromDict(d) ==
    [query |-> ItemGet(d, "query"), steps |-> StepsFromDict(ItemGet(d, "steps"))]

\* requests: plain, with a table hint, with a discrepancy keyword, both
PlanQueries ==
    { <<"s","h","o","w"," ">> \o W_orders,
      <<"t","a","b","l","e"," ">> \o W_orders,
      <<"C","h","e","c","k"," ">> \o W_orders,
      <<"C","h","e","c","k"," ","t","a","b","l","e","s"," ">> \o W_staff }

\* the plan p cut to its first n steps, n up to MaxPlanSteps
PlanPrefixes(p) ==
    {[query |-> p.query, steps |-> Take(p.steps, n)] : n \in 0..MaxPlanSteps}

\* plans of the planner and their prefixes
Plans == UNION {PlanPrefixes(CreatePlan(DefineTemplates, q)) : q \in PlanQueries}

\* step dictionaries written by hand, the keys in two orders
StepDicts ==
    { << <<"agent", "schema">>, <<"action", "get_schema_info">>,
         <<"description", "Get database schema information">>,
         <<"params", <<>> >> >>,
      << <<"params", [k \in {"suggested_tables"} |-> <<W_orders>>]>>,
         <<"description", "Execute SQL query">>,
         <<"action", "execute_query">>, <<"agent", "query">> >> }

PlanDicts ==
    { << <<"steps", ss>>, <<"query", q>> >> :
        q \in {W_orders, W_staff},
        ss \in UNION {[1..n -> StepDicts] : n \in 0..MaxPlanSteps} }

PlanInit ==
    /\ rule_calls = <<>>
    /\ current_time = 0
    /\ \/ /\ pc = "plan"
          /\ plan \in Plans
          /\ result = <<>>
          /\ calls = <<plan>>
       \/ /\ pc = "dict"
          /\ plan = NoPlan
          /\ result \in PlanDicts
          /\ calls = <<result>>
    /\ step = 0
    /\ user_query = <<>>
    /\ templates = DefineTemplates
    /\ param_maps = <<>>
    /\ data = <<>>
    /\ discrepancies = <<>>
    /\ context = <<>>
    /\ memory = <<>>
    /\ business_rules = <<>>
    /\ bedrock_agent = FALSE
    /\ schemas = <<>>
    /\ schema_cache = <<>>
    /\ sub_agents = FALSE
    /\ mem0 = <<>>
    /\ missed = {}
    /\ stages = <<>>

\* what the two conversions leave alone
PlanFrame ==
    UNCHANGED <<user_query, templates, param_maps, data, discrepancies, agentVars,
                rule_calls, current_time, calls, schemas, schema_cache,
                sub_agents, mem0, missed>>

\* result = plan.to_dict()
PlanToDict ==
    /\ pc = "plan"
    /\ step < MaxConversions
    /\ result' = ToDict(plan)
    /\ pc' = "dict"
    /\ step' = step + 1
    /\ UNCHANGED <<plan, stages>>
    /\ PlanFrame

\* plan = Plan.from_dict(result)
PlanFromDict ==
    /\ pc = "dict"
    /\ step < MaxConversions
    /\ plan' = FromDict(result)
    /\ pc' = "plan"
    /\ step' = step + 1
    /\ UNCHANGED <<result, stages>>
    /\ PlanFrame

PlanNext == PlanToDict \/ PlanFromDict

PlanSpec == PlanInit /\ [][PlanNext]_vars

---------------------------------------------------------------------------
(* QueryAgent (query_agent.py): a sequence of execute_query calls on one   *)
(* agent and one store, with the examples each call offers the generator   *)

\* _generate_sql_query: the examples built from a list of entries
ExamplesOf(previous_queries) ==
    [i \in 1..Len(previous_queries) |->
        [query |-> previous_queries[i].content.user_query,
         sql |-> previous_queries[i].content.sql_query]]

\* _generate_sql_query: the examples handed to generate_sql; without a
\* BedrockAgent the rule-based generator takes none
PreviousExamples(mem, bedrock, now) ==
    IF bedrock
    THEN ExamplesOf(MemoryGet(mem, "executed_queries", 3, None, now))
    ELSE <<>>

\* mutant: the query is recorded whatever the outcome
ExecuteQuery_RecordsFailures(mem, query, sql, outcome, now) ==
    [result |-> IF outcome = "ok"
                THEN [SuccessResult(<<>>) EXCEPT !["sql_query"] = sql]
                ELSE [ErrorResult EXCEPT !["sql_query"] = sql],
     memory |-> MemoryAddAt(mem, "executed_queries",
                            [user_query |-> query, sql_query |-> sql],
                            <<>>, now)]

\* QueryAgent.execute_query after the SQL text sql was generated: the dict
\* returned and the store
ExecuteQuery(mem, query, sql, outcome, now) ==
    [result |-> IF outcome = "ok"
                THEN [SuccessResult(<<>>) EXCEPT !["sql_query"] = sql]
                ELSE [ErrorResult EXCEPT !["sql_query"] = sql],
     memory |-> IF outcome = "execute_raises" THEN mem
                ELSE MemoryAddAt(mem, "executed_queries",
                                 [user_query |-> query, sql_query |-> sql],
                                 <<>>, now)]

\* the number of execute_query calls on one agent
MaxQueries == 3

QueryRequests == {W_orders, W_staff}

\* the time between two calls: none, or more than the time-to-live
QueryElapses == {0, ttl + 1}

\* the SQL texts the generator returns
GeneratedSql == {"SQL", "SQL_2"}

QueryAgentInit ==
    /\ rule_calls = <<>>
    /\ current_time = 0
    /\ pc = "query_agent"
    /\ memory = <<>>
    /\ calls = <<>>
    /\ user_query = <<>>
    /\ templates = <<>>
    /\ param_maps = <<>>
    /\ plan = NoPlan
    /\ data = <<>>
    /\ discrepancies = <<>>
    /\ context = <<>>
    /\ business_rules = <<>>
    /\ bedrock_agent \in BOOLEAN
    /\ PipelineUnused

\* one call of execute_query, some time after the one before; calls keeps
\* what each call was given, generated and met
QueryAgentExecute ==
    /\ pc = "query_agent"
    /\ Len(calls) < MaxQueries
    /\ \E elapsed \in QueryElapses, q \in QueryRequests,
          sql \in GeneratedSql, outcome \in ExecuteOutcomes :
          /\ current_time + elapsed <= MaxTime
          /\ ~bedrock_agent => sql = "SQL"
          /\ current_time' = current_time + elapsed
          /\ user_query' = q
          /\ calls' = Append(calls,
                [user_query |-> q, sql_query |-> sql, outcome |-> outcome,
                 time |-> current_time',
                 examples |-> PreviousExamples(memory, bedrock_agent,
                                               current_time')])
          /\ result' = ExecuteQuery(memory, q, sql, outcome, current_time').result
          /\ memory' = ExecuteQuery(memory, q, sql, outcome, current_time').memory
    /\ UNCHANGED <<pc, plannerVars, data, discrepancies, context,
                   business_rules, bedrock_agent, rule_calls, schemas,
                   schema_cache, sub_agents, step, mem0, missed, stages>>

QueryAgentNext == QueryAgentExecute

QueryAgentSpec == QueryAgentInit /\ [][QueryAgentNext]_vars

---------------------------------------------------------------------------
(* Claims about the planner, checked under PlannerSpec *)

StepKinds(p) == [i \in 1..Len(p.steps) |-> p.steps[i].agent]

\* keyword kw occurs in the lower-cased text q, read off character by character
KeywordOccurs(q, kw) ==
    \E off \in 0..(Len(q) - Len(kw)) :
        \A j \in 1..Len(kw) : LowerChar(q[off + j]) = kw[j]

MentionsDiscrepancy(q) ==
    \E n \in 1..Len(discrepancy_keywords) :
        KeywordOccurs(q, discrepancy_keywords[n])

\* C7: create_plan returns the stage kinds [schema, query, discrepancy] when
\* the lower-cased request contains a discrepancy keyword as a substring and
\* [schema, query] otherwise; never another kind, never more than 3 stages.
C7_PlanShape ==
    pc = "planned" =>
        /\ StepKinds(plan) =
              IF MentionsDiscrepancy(user_query)
              THEN <<"schema", "query", "discrepancy">>
              ELSE <<"schema", "query">>
        /\ Len(plan.steps) \in 1..3
        /\ \A i \in 1..Len(plan.steps) :
              plan.steps[i].agent \in {"schema", "query", "discrepancy"}
        /\ plan.query = user_query

\* a 3-stage plan for a request whose keyword shows only after lower-casing
C7_Witness ==
    /\ pc = "planned"
    /\ Len(plan.steps) = 3
    /\ \A n \in 1..Len(discrepancy_keywords) :
          ~Contains(user_query, discrepancy_keywords[n])

\* positions of the lower-cased text t where "kw <word char>" starts
PhraseAt(t, p, kw) ==
    /\ p + Len(kw) + 1 <= Len(t)
    /\ \A j \in 1..Len(kw) : t[p + j - 1] = kw[j]
    /\ t[p + Len(kw)] = " "
    /\ IsWordChar(t[p + Len(kw) + 1])

TablePhrases(t) ==
    {<<p, kw>> \in (1..Len(t)) \X {W_table, W_tables} : PhraseAt(t, p, kw)}

FirstTablePhrase(t) ==
    CHOOSE ph \in TablePhrases(t) : \A o \in TablePhrases(t) : ph[1] <= o[1]

\* the identifier X of the phrase: the longest run of word characters after it
IdentOf(t, ph) ==
    LET s == ph[1] + Len(ph[2]) + 1
        e == CHOOSE k \in s..Len(t) :
                /\ \A m \in s..k : IsWordChar(t[m])
                /\ (k = Len(t) \/ ~IsWordChar(t[k + 1]))
    IN  SubSeq(t, s, e)

\* C8: when the lower-cased request contains "table X" or "tables X", the
\* schema stage's parameters hold suggested_tables = [X] for the first such
\* X; otherwise no stage has suggested_tables set.
C8_TableHint ==
    pc = "planned" =>
        LET t == Lower(user_query)
        IN  IF TablePhrases(t) # {}
            THEN \A i \in 1..Len(plan.steps) :
                    IF plan.steps[i].agent = "schema"
                    THEN /\ "suggested_tables" \in DOMAIN plan.steps[i].params
                         /\ plan.steps[i].params["suggested_tables"] =
                               <<IdentOf(t, FirstTablePhrase(t))>>
                    ELSE "suggested_tables" \notin DOMAIN plan.steps[i].params
            ELSE \A i \in 1..Len(plan.steps) :
                    "suggested_tables" \notin DOMAIN plan.steps[i].params

\* "table Tables X_1 " gives the hint ["tables"]: the first of two phrases,
\* lower-cased
C8_Witness ==
    /\ pc = "planned"
    /\ Cardinality(TablePhrases(Lower(user_query))) >= 2
    /\ \E i \in 1..Len(plan.steps) :
          /\ "suggested_tables" \in DOMAIN plan.steps[i].params
          /\ plan.steps[i].params["suggested_tables"] = <<W_tables>>
    /\ ~Contains(user_query, W_tables)

\* C28: after any sequence of create_plan calls on one planner the templates
\* are as defined, with empty parameter maps; no parameter map belongs to two
\* steps of the returned plans or to a template; and a plan's parameter maps
\* hold a hint only if the plan's own request carries it.
C28_TemplatesNotShared ==
    pc = "planner" =>
        /\ templates = TemplateObjects
        /\ \A name \in DOMAIN templates : \A i \in 1..Len(templates[name]) :
              param_maps[templates[name][i].params] = <<>>
        /\ \A k \in 1..Len(calls) : \A i \in 1..Len(calls[k].steps) :
              /\ \A name \in DOMAIN templates : \A j \in 1..Len(templates[name]) :
                    calls[k].steps[i].params # templates[name][j].params
              /\ \A l \in 1..Len(calls) : \A j \in 1..Len(calls[l].steps) :
                    (k # l \/ i # j) =>
                        calls[k].steps[i].params # calls[l].steps[j].params
              /\ "suggested_tables" \in DOMAIN param_maps[calls[k].steps[i].params]
                    => /\ TablePhrases(Lower(calls[k].query)) # {}
                       /\ param_maps[calls[k].steps[i].params]["suggested_tables"]
                             = <<IdentOf(Lower(calls[k].query),
                                         FirstTablePhrase(Lower(calls[k].query)))>>
              /\ "suggested_schema" \in DOMAIN param_maps[calls[k].steps[i].params]
                    => param_maps[calls[k].steps[i].params]["suggested_schema"]
                          = SchemaMatch(Lower(calls[k].query))

\* a plan with a table hint, then one without hints, then one with a schema
\* hint: the second plan's parameter maps are empty
C28_Witness ==
    /\ pc = "planner"
    /\ Len(calls) = 3
    /\ param_maps[calls[1].steps[1].params] =
          [k \in {"suggested_tables"} |-> <<W_orders>>]
    /\ \A i \in 1..Len(calls[2].steps) :
          param_maps[calls[2].steps[i].params] = <<>>
    /\ param_maps[calls[3].steps[1].params] =
          [k \in {"suggested_schema"} |-> W_hr]

---------------------------------------------------------------------------
(* Claims about the generic checks, checked under GenericSpec *)

DuplicateRecords == SelectSeq(discrepancies, LAMBDA r : r.type = "duplicate_value")

\* the rows before row j (1-based) that hold row j's value of field f
EarlierSame(f, j) ==
    {i \in 1..(j - 1) : RowGet(data[i], f) = RowGet(data[j], f)}

Min(S) == CHOOSE x \in S : \A y \in S : x <= y

\* C10: for each key field among id, code, key that is a column of the batch,
\* every row whose value already occurred in an earlier row yields exactly one
\* duplicate_value record (severity high) with row_indices = [first row
\* holding the value, current row], and there is no other duplicate_value
\* record.
C10_Duplicates ==
    pc = "checked" =>
        /\ \A f \in Range(primary_fields) : \A j \in 1..Len(data) :
              LET hits == {n \in 1..Len(DuplicateRecords) :
                              /\ DuplicateRecords[n].fields = <<f>>
                              /\ DuplicateRecords[n].row_indices[2] = j - 1}
              IN  IF f \in RowKeys(data[1]) /\ EarlierSame(f, j) # {}
                  THEN /\ Cardinality(hits) = 1
                       /\ \A n \in hits :
                            /\ DuplicateRecords[n].row_indices =
                                  <<Min(EarlierSame(f, j)) - 1, j - 1>>
                            /\ DuplicateRecords[n].severity = "high"
                  ELSE hits = {}
        /\ \A n \in 1..Len(DuplicateRecords) :
              /\ Len(DuplicateRecords[n].fields) = 1
              /\ DuplicateRecords[n].fields[1] \in Range(primary_fields)
              /\ Len(DuplicateRecords[n].row_indices) = 2
              /\ DuplicateRecords[n].row_indices[2] \in 0..(Len(data) - 1)
        /\ (data = << <<(<<F_id, "1">>)>>, <<(<<F_id, "2">>)>>, <<(<<F_id, "1">>)>> >>
              => /\ Len(DuplicateRecords) = 1
                 /\ DuplicateRecords[1].row_indices = <<0, 2>>)

\* three rows with the same id: the third is reported against the first
C10_Witness ==
    /\ pc = "checked"
    /\ Len(data) = 3
    /\ F_id \in RowKeys(data[1])
    /\ RowGet(data[1], F_id) = "1"
    /\ RowGet(data[2], F_id) = "1"
    /\ RowGet(data[3], F_id) = "1"
    /\ Len(DuplicateRecords) = 2
    /\ DuplicateRecords[2].row_indices = <<0, 2>>

\* C23 (as the specification states it): no duplicate_value record is
\* emitted for a null key value, however many rows hold null in id, code
\* or key.
C23_NoDuplicateOfNull ==
    pc = "checked" =>
        \A n \in 1..Len(DuplicateRecords) :
            /\ DuplicateRecords[n].value # None
            /\ \A i \in Range(DuplicateRecords[n].row_indices) :
                  RowGet(data[i + 1], DuplicateRecords[n].fields[1]) # None

---------------------------------------------------------------------------
(* Claims about check_discrepancies, checked under DiscSpec *)

\* the context's query_result is absent, empty, or carries no data rows
NoDataRows(ctx) ==
    \/ "query_result" \notin DOMAIN ctx
    \/ DOMAIN ctx["query_result"] = {}
    \/ "data" \notin DOMAIN ctx["query_result"]
    \/ Len(ctx["query_result"]["data"]) = 0

\* C9: when the context's query_result is absent, empty, or carries no data
\* rows, check_discrepancies returns [] and invokes nothing (no analyzer, no
\* generic check, no rule, no rule query) and appends nothing to the store.
C9_NoDataNoWork ==
    (pc \in {"checked", "raised"} /\ NoDataRows(context)) =>
        /\ pc = "checked"
        /\ discrepancies = <<>>
        /\ calls = <<>>
        /\ DOMAIN memory = {}

\* an error-only query_result, an analyzer and a rule that would raise
C9_Witness ==
    /\ pc = "checked"
    /\ "query_result" \in DOMAIN context
    /\ "error" \in DOMAIN context["query_result"]
    /\ bedrock_agent
    /\ \E n \in 1..Len(business_rules) :
          /\ business_rules[n][1] \notin NativeChecks
          /\ DictGet(business_rules[n][2], "check_function", "") = "fn_raises"


\* the batch check_discrepancies evaluated
EvaluatedBatch == DictGet(DictGet(context, "query_result", <<>>), "data", <<>>)

\* C12 (as the specification states it): every record check_discrepancies
\* returned has only row indices of the evaluated batch, 0..len(data)-1.
C12_RowIndicesInBatch ==
    pc = "checked" =>
        \A n \in 1..Len(discrepancies) :
            "row_indices" \in DOMAIN discrepancies[n] =>
                \A k \in 1..Len(discrepancies[n].row_indices) :
                    discrepancies[n].row_indices[k] \in 0..(Len(EvaluatedBatch) - 1)

\* the rule-dispatch entries of the call history, in order
RuleCalls ==
    SelectSeq(calls, LAMBDA c : c[1] \in {"native", "check_function", "rule_query"})

\* the branch the dispatch priority gives a rule, "none" when it has none
Branch(name, rule) ==
    IF name \in {"price_consistency", "inventory_balance"} THEN "native"
    ELSE IF /\ "check_function" \in DOMAIN rule
            /\ rule["check_function"] \in {"fn_returns", "fn_raises"}
    THEN "check_function"
    ELSE IF "sql_query" \in DOMAIN rule THEN "rule_query"
    ELSE "none"

\* one entry per rule that has a branch, in registration order
ExpectedCalls ==
    SelectSeq([i \in 1..Len(business_rules) |->
                  <<Branch(business_rules[i][1], business_rules[i][2]),
                    business_rules[i][1]>>],
              LAMBDA c : c[1] # "none")

\* C24: the rules are dispatched in registration order, each on the one
\* branch its priority gives it (native check, else predicate, else rule
\* query), up to the rule that raised if one did; a rule with a native check
\* never has its predicate called nor its query executed.
C24_DispatchByPriority ==
    (pc \in {"checked", "raised"} /\ ~NoDataRows(context)) =>
        /\ pc = "checked" => RuleCalls = ExpectedCalls
        /\ pc = "raised" =>
              /\ Len(RuleCalls) <= Len(ExpectedCalls)
              /\ RuleCalls = SubSeq(ExpectedCalls, 1, Len(RuleCalls))
        /\ \A n \in 1..Len(RuleCalls) :
              RuleCalls[n][2] \in {"price_consistency", "inventory_balance"} =>
                  RuleCalls[n][1] = "native"

\* a rule with a native check and a raising predicate, then a rule query
C24_Witness ==
    /\ pc = "checked"
    /\ ~NoDataRows(context)
    /\ Len(business_rules) = 2
    /\ business_rules[1] = <<"price_consistency", [check_function |-> "fn_raises"]>>
    /\ "sql_query" \in DOMAIN business_rules[2][2]
    /\ RuleCalls = << <<"native", "price_consistency">>,
                      <<"rule_query", business_rules[2][1]>> >>

\* the records of the business rules in the returned list
BusinessRecords ==
    SelectSeq(discrepancies, LAMBDA r : r.type \in {"custom", "business_rule"})

\* the rule runs a declarative query and the query fails
QueryFailsFor(entry) ==
    /\ Branch(entry[1], entry[2]) = "rule_query"
    /\ entry[2]["sql_query"] = "SQL_FAILS"

\* C25: a rule whose declarative query fails contributes no record and the
\* failure is not raised (what is raised comes from the analyzer or from a
\* predicate), and the other rules are dispatched and contribute their
\* records as they do in the registry without the failing rule.
C25_FailingQueryIsSkipped ==
    (/\ pc \in {"checked", "raised"}
     /\ ~NoDataRows(context)
     /\ \E i \in 1..Len(business_rules) : QueryFailsFor(business_rules[i])) =>
        /\ pc = "raised" =>
              /\ calls # <<>>
              /\ calls[Len(calls)][1] \in {"ai", "check_function"}
        /\ pc = "checked" =>
              /\ RuleCalls = ExpectedCalls
              /\ BusinessRecords =
                    ApplyBusinessRules(
                        SelectSeq(business_rules, LAMBDA e : ~QueryFailsFor(e)),
                        EvaluatedBatch, 1).recs

\* a failing rule query is followed by a rule query that returns two rows
C25_Witness ==
    /\ pc = "checked"
    /\ ~NoDataRows(context)
    /\ Len(business_rules) = 2
    /\ QueryFailsFor(business_rules[1])
    /\ Len(BusinessRecords) = 2
    /\ BusinessRecords[1].rule_name = "Inventory Balance"

\* the analyzer's records in the returned list
AiRecords ==
    SelectSeq(discrepancies, LAMBDA r : r.type = "business_rule_violation")

\* the generic checks' records in the returned list
GenericRecords ==
    SelectSeq(discrepancies, LAMBDA r : r.type \in {"null_value", "duplicate_value"})

\* C26: for a non-empty batch the returned list is the analyzer's records,
\* then the generic-check records, then the business-rule records; it is
\* appended to the store once when it is non-empty and not at all when empty.
C26_ConcatenatedAndArchived ==
    (pc = "checked" /\ ~NoDataRows(context)) =>
        /\ discrepancies = AiRecords \o GenericRecords \o BusinessRecords
        /\ GenericRecords = ApplyGenericChecks(EvaluatedBatch)
        /\ BusinessRecords =
              ApplyBusinessRules(business_rules, EvaluatedBatch, 1).recs
        /\ AiRecords # <<>> => <<"ai", "list">> \in Range(calls)
        /\ IF discrepancies = <<>> THEN DOMAIN memory = {}
           ELSE /\ DOMAIN memory = {"discrepancies"}
                /\ Len(memory["discrepancies"]) = 1
                /\ memory["discrepancies"][1].content = discrepancies

\* records of all three kinds were returned and archived
C26_Witness ==
    /\ pc = "checked"
    /\ AiRecords # <<>>
    /\ GenericRecords # <<>>
    /\ BusinessRecords # <<>>
    /\ DOMAIN memory = {"discrepancies"}

\* the analyzer was invoked and gave no usable reply
AnalyzerFailed ==
    \E c \in Range(calls) :
        c[1] = "ai" /\ c[2] \in {"raises", "malformed", "not_list", "not_serializable"}

\* C27 (as the specification states it): for a non-empty batch the analyzer
\* is invoked exactly when one is configured and the registry is non-empty;
\* when it fails it contributes no record and the generic checks and the
\* rules still run and their records are returned.
C27_AnalyzerFailureIsAbsorbed ==
    (pc \in {"checked", "raised"} /\ ~NoDataRows(context)) =>
        /\ (\E c \in Range(calls) : c[1] = "ai")
              <=> (bedrock_agent /\ business_rules # <<>>)
        /\ AnalyzerFailed =>
              /\ <<"generic", "">> \in Range(calls)
              /\ pc = "raised" =>
                    \E c \in Range(calls) : c[1] = "check_function"
              /\ pc = "checked" =>
                    /\ AiRecords = <<>>
                    /\ RuleCalls = ExpectedCalls
                    /\ discrepancies = GenericRecords \o BusinessRecords

---------------------------------------------------------------------------
(* Claims about the null check, checked under GenericSpec *)

NullRecords == SelectSeq(discrepancies, LAMBDA r : r.type = "null_value")

\* field name f, compared case-insensitively, is one of the excluded names
ExcludedName(f) ==
    \E x \in { <<"i","d">>,
               <<"c","r","e","a","t","e","d","_","a","t">>,
               <<"u","p","d","a","t","e","d","_","a","t">>,
               <<"n","o","t","e","s">>,
               <<"d","e","s","c","r","i","p","t","i","o","n">> } :
        /\ Len(x) = Len(f)
        /\ \A i \in 1..Len(f) : LowerChar(f[i]) = x[i]

\* C11: for every row index i and every field f of the row that is not an
\* excluded name (case-insensitively) there is exactly one null_value record
\* (severity low, row_indices = [i], fields = [f]) when the value is None;
\* there is no null_value record for a present value or an excluded field.
C11_NullCheck ==
    pc = "checked" =>
        /\ \A j \in 1..Len(data) : \A k \in 1..Len(data[j]) :
              LET hits == {n \in 1..Len(NullRecords) :
                              /\ NullRecords[n].row_indices = <<j - 1>>
                              /\ NullRecords[n].fields = <<data[j][k][1]>>}
              IN  IF data[j][k][2] = None /\ ~ExcludedName(data[j][k][1])
                  THEN /\ Cardinality(hits) = 1
                       /\ \A n \in hits : NullRecords[n].severity = "low"
                  ELSE hits = {}
        /\ \A n \in 1..Len(NullRecords) :
              \E j \in 1..Len(data) : \E k \in 1..Len(data[j]) :
                  /\ NullRecords[n].row_indices = <<j - 1>>
                  /\ NullRecords[n].fields = <<data[j][k][1]>>
        /\ (data = << <<(<<F_id, "1">>), (<<F_price, None>>)>> >>
              => NullRecords = <<NullValueRecord(0, F_price)>>)

\* a batch with a null price in its second row and null notes everywhere
C11_Witness ==
    /\ pc = "checked"
    /\ Len(data) = 2
    /\ \E j \in 1..Len(data) : RowGet(data[j], F_Notes) = None /\ F_Notes \in RowKeys(data[j])
    /\ NullRecords = <<>>

\* a null price in the second of two rows is reported once, for index 1
C11_WitnessPrice ==
    /\ pc = "checked"
    /\ Len(data) = 2
    /\ F_price \in RowKeys(data[2])
    /\ RowGet(data[1], F_price) = "1"
    /\ RowGet(data[2], F_price) = None
    /\ RowGet(data[2], F_id) = None
    /\ NullRecords = <<NullValueRecord(1, F_price)>>

---------------------------------------------------------------------------
(* Claims about Plan serialization, checked under PlanSpec *)

\* calls[1] is the value the behaviour began with: a Plan when two
\* conversions end in a Plan, a dictionary when they end in a dictionary

\* the keys of a dictionary
Keys(d) == {d[i][1] : i \in 1..Len(d)}

\* two step dictionaries hold the same four items
SameStepDict(a, b) ==
    /\ Len(a) = 4 /\ Len(b) = 4
    /\ Keys(a) = {"agent", "action", "description", "params"}
    /\ Keys(b) = Keys(a)
    /\ \A i, j \in 1..4 : a[i][1] = b[j][1] => a[i][2] = b[j][2]

\* two plan dictionaries are equal as dictionaries
SamePlanDict(a, b) ==
    /\ Len(a) = 2 /\ Len(b) = 2
    /\ Keys(a) = {"query", "steps"}
    /\ Keys(b) = Keys(a)
    /\ \A i, j \in 1..2 :
          (a[i][1] = "query" /\ b[j][1] = "query") => a[i][2] = b[j][2]
    /\ \A i, j \in 1..2 :
          (a[i][1] = "steps" /\ b[j][1] = "steps") =>
              /\ Len(a[i][2]) = Len(b[j][2])
              /\ \A k \in 1..Len(a[i][2]) : SameStepDict(a[i][2][k], b[j][2][k])

\* C19: from_dict(to_dict(p)) has the query of p and the steps of p (agent,
\* action, description, params) in the same order, and to_dict(from_dict(d))
\* equals d for a dictionary d with exactly the keys of a plan.
C19_RoundTrip ==
    /\ (pc = "plan" /\ step = 2) =>
          /\ plan.query = calls[1].query
          /\ Len(plan.steps) = Len(calls[1].steps)
          /\ \A i \in 1..Len(plan.steps) :
                /\ plan.steps[i].agent = calls[1].steps[i].agent
                /\ plan.steps[i].action = calls[1].steps[i].action
                /\ plan.steps[i].description = calls[1].steps[i].description
                /\ plan.steps[i].params = calls[1].steps[i].params
    /\ (pc = "dict" /\ step = 2) =>
          SamePlanDict(result, calls[1])

\* a plan with a hint in a step's params went through both conversions
C19_Witness ==
    /\ pc = "plan"
    /\ step = 2
    /\ Len(plan.steps) = 2
    /\ \E i \in 1..2 : plan.steps[i].params # <<>>

\* a dictionary with its keys in another order went through both conversions
C19_WitnessDict ==
    /\ pc = "dict"
    /\ step = 2
    /\ result # calls[1]
    /\ Len(ItemGet(result, "steps")) = 2

---------------------------------------------------------------------------
(* Claims about Memory, checked under MemorySpec *)

\* the stored entries of the category the last call named
StoredEntries == DictGet(memory, calls[1].category, <<>>)

\* the stored entries a get has to consider: fresh and accepted
Eligible ==
    {i \in 1..Len(StoredEntries) :
        /\ current_time - StoredEntries[i].timestamp <= ttl
        /\ calls[1].filter_func # None =>
              FilterAccepts(calls[1].filter_func, StoredEntries[i])}

\* C17: get(category, n, filter) returns at most n entries of the category,
\* newest timestamp first, each a stored entry as it was added, none twice,
\* none older than ttl, none the filter rejects; it returns every such
\* entry unless n cuts the list, and then the newest ones; a category
\* never added to yields [].
C17_GetRecent ==
    (pc = "get") =>
        /\ Len(result) <= calls[1].n
        /\ calls[1].category \notin DOMAIN memory => result = <<>>
        /\ \E f \in [1..Len(result) -> Eligible] :
              /\ \A a, b \in 1..Len(result) : a # b => f[a] # f[b]
              /\ \A a \in 1..Len(result) : result[a] = StoredEntries[f[a]]
              /\ \A i \in Eligible \ Range(f) :
                    /\ Len(result) = calls[1].n
                    /\ \A a \in 1..Len(result) :
                          StoredEntries[i].timestamp <= result[a].timestamp
        /\ \A a \in 1..(Len(result) - 1) :
              result[a].timestamp >= result[a + 1].timestamp

\* an expired entry is left out and a fresh one is returned
C17_Witness ==
    /\ pc = "get"
    /\ Len(StoredEntries) = 3
    /\ current_time - StoredEntries[1].timestamp > ttl
    /\ calls[1].filter_func = None
    /\ calls[1].n = 5
    /\ result = <<StoredEntries[3], StoredEntries[2]>>

\* the newest of two fresh entries is returned when n is 1
C17_WitnessCut ==
    /\ pc = "get"
    /\ Cardinality(Eligible) = 2
    /\ StoredEntries[1].timestamp < StoredEntries[2].timestamp
    /\ result = <<StoredEntries[2]>>

\* C18 (as the specification states it): clear(category) empties that
\* category and leaves every other category as it was; clear() with no
\* category leaves no entry in any category.
C18_ClearFrame ==
    [][pc' = "clear" =>
          IF calls'[1].category = None
          THEN \A c \in DOMAIN memory' : memory'[c] = <<>>
          ELSE /\ DictGet(memory', calls'[1].category, <<>>) = <<>>
               /\ \A c \in (DOMAIN memory) \ {calls'[1].category} :
                     c \in DOMAIN memory' /\ memory'[c] = memory[c]]_vars

---------------------------------------------------------------------------
(* Claims about the schema resolver, checked under SchemaSpec *)

\* C13 (as the specification states it): no table name occurs twice in the
\* selected_tables of a selection.
C13_NoTableTwice ==
    pc = "selected" =>
        \A i, j \in 1..Len(result["selected_tables"]) :
            i # j => result["selected_tables"][i] # result["selected_tables"][j]

\* the selection came from scored inference: no table was hinted or named
InferenceUsed ==
    /\ pc = "selected"
    /\ "suggested_tables" \notin DOMAIN context
    /\ ExtractTablesFromQuery(user_query, schemas, schema_cache) = <<>>

\* the tables of the resolved schema
SchemaTables ==
    IF result["selected_schema"] \in DOMAIN schema_cache
    THEN DOMAIN schema_cache[result["selected_schema"]] ELSE {}

\* the score of every table of the resolved schema against the tokens of
\* the request
ScoresFor(tokens) == [t \in SchemaTables |-> TableScore(t, tokens)]

ScoreTable == ScoresFor(Words(Lower(user_query)))

\* the tables inference may return
Qualifying(score) == {t \in DOMAIN score : ~ScoreLess(score[t], <<1, 2>>)}

\* the inferred list holds the best min(3, |qualifying|) qualifying tables,
\* each once, every table left out scoring no more than any table kept
KeepsTopThree(tables, score, qualifying) ==
    /\ Range(tables) \subseteq qualifying
    /\ \A i, j \in 1..Len(tables) : i # j => tables[i] # tables[j]
    /\ Len(tables) = IF Cardinality(qualifying) < 3
                     THEN Cardinality(qualifying) ELSE 3
    /\ \A t \in qualifying \ Range(tables) : \A i \in 1..Len(tables) :
          ~ScoreLess(score[tables[i]], score[t])

\* table a stands before table b: by score, equal scores in catalog order
BeforeInCatalogOrder(a, b, score) ==
    \/ ScoreLess(score[b], score[a])
    \/ (~ScoreLess(score[a], score[b]) /\ StrLess(a, b))

\* table a stands before table b: by score, equal scores by name descending
BeforeByNameDescending(a, b, score) ==
    \/ ScoreLess(score[b], score[a])
    \/ (~ScoreLess(score[a], score[b]) /\ StrLess(b, a))

\* the list is in catalog-tie order and so are the tables left out
RankedInCatalogOrder(tables, score, qualifying) ==
    /\ KeepsTopThree(tables, score, qualifying)
    /\ \A i \in 1..(Len(tables) - 1) :
          BeforeInCatalogOrder(tables[i], tables[i + 1], score)
    /\ \A t \in qualifying \ Range(tables) : \A i \in 1..Len(tables) :
          BeforeInCatalogOrder(tables[i], t, score)

\* the list is in name-descending-tie order and so are the tables left out
RankedByNameDescending(tables, score, qualifying) ==
    /\ KeepsTopThree(tables, score, qualifying)
    /\ \A i \in 1..(Len(tables) - 1) :
          BeforeByNameDescending(tables[i], tables[i + 1], score)
    /\ \A t \in qualifying \ Range(tables) : \A i \in 1..Len(tables) :
          BeforeByNameDescending(tables[i], t, score)

\* C14 (as the specification states it): descending score, at least 0.5,
\* the top 3, equal scores in the order the catalog enumerates the tables
\* (ORDER BY table_name).
C14_TiesInCatalogOrder ==
    InferenceUsed =>
        RankedInCatalogOrder(result["selected_tables"], ScoreTable,
                             Qualifying(ScoreTable))

\* C14 (amended): descending score, at least 0.5, the top 3, equal scores
\* in descending order of the table names.
C14_TiesByNameDescending ==
    InferenceUsed =>
        RankedByNameDescending(result["selected_tables"], ScoreTable,
                               Qualifying(ScoreTable))

\* four qualifying tables, two of them with the same score at the top
C14_Witness ==
    /\ InferenceUsed
    /\ Cardinality(Qualifying(ScoreTable)) = 4
    /\ result["selected_tables"] = <<W_staff, W_orders, W_order>>
    /\ ScoreTable[W_staff] = ScoreTable[W_orders]

\* how a table matches the tokens: 1 by its lower-cased name, 2 by its
\* singular or plural form only, 3 by partial overlap only, 4 not at all
MatchClass(t, tokens) ==
    LET name == [i \in 1..Len(t) |-> LowerChar(t[i])]
        other == IF name # <<>> /\ name[Len(name)] = "s"
                 THEN SubSeq(name, 1, Len(name) - 1) ELSE name \o <<"s">>
    IN  IF name \in tokens THEN 1
        ELSE IF other \in tokens THEN 2
        ELSE IF \E x \in tokens : Contains(x, name) \/ Contains(name, x) THEN 3
        ELSE 4

\* the class of every table of the resolved schema
ClassesFor(tokens) == [t \in SchemaTables |-> MatchClass(t, tokens)]

ClassTable == ClassesFor(Words(Lower(user_query)))

\* the scores agree with the classes and the list is in class order
ClassesRanked(tables, score, class) ==
    /\ \A t \in DOMAIN class :
          /\ class[t] = 1 => score[t] = <<1, 1>>
          /\ class[t] = 2 => score[t] = <<9, 10>>
          /\ class[t] = 3 => /\ ~ScoreLess(<<8, 10>>, score[t])
                             /\ ScoreLess(<<0, 1>>, score[t])
          /\ class[t] = 4 => score[t] = <<0, 1>>
    /\ \A i, j \in 1..Len(tables) : i < j => class[tables[i]] <= class[tables[j]]

\* C15: a name match scores 1.0, a singular/plural match 0.9, a partial
\* overlap at most 0.8, and in the inferred list a name match stands before
\* a singular/plural match, which stands before a partial match.
C15_ClassesRanked ==
    InferenceUsed =>
        ClassesRanked(result["selected_tables"], ScoreTable, ClassTable)

\* one token that matches a table by name, one by plural and one partially
C15_Witness ==
    /\ InferenceUsed
    /\ result["selected_tables"] = <<W_orders, W_order, W_ord>>
    /\ ClassTable[W_orders] = 1
    /\ ClassTable[W_order] = 2
    /\ ClassTable[W_ord] = 3

\* the tokens that contain the lower-cased table name or lie within it
Overlapping(t, tokens) ==
    {x \in tokens : Contains(x, Lower(t)) \/ Contains(Lower(t), x)}

\* (length of the shorter) / (length of the longer) * 0.8, as a fraction
OverlapScore(x, t) ==
    IF Len(x) <= Len(t) THEN <<8 * Len(x), 10 * Len(t)>>
    ELSE <<8 * Len(t), 10 * Len(x)>>

\* every partially matched table has the largest overlap score of its tokens
PartialScores(score, class, tokens) ==
    \A t \in DOMAIN class :
        class[t] = 3 =>
            /\ \A x \in Overlapping(t, tokens) :
                  ~ScoreLess(score[t], OverlapScore(x, t))
            /\ \E x \in Overlapping(t, tokens) :
                  ~ScoreLess(OverlapScore(x, t), score[t])
            /\ (\A x \in Overlapping(t, tokens) : Len(x) > Len(t)) =>
                  ScoreLess(score[t], <<8, 10>>)

\* C22 (as the specification states it): the score of a table matched only
\* by partial overlap is the largest shorter/longer * 0.8 over the tokens
\* that overlap its name, so less than 0.8 when every such token is longer.
C22_PartialOverlapScore ==
    InferenceUsed =>
        PartialScores(ScoreTable, ClassTable, Words(Lower(user_query)))

\* C20 (as the specification states it): the selected schema is the hint
\* only when the hint is a known schema; otherwise it is the known schema
\* the request names, otherwise the first known schema; so it is none or a
\* known schema, and none only when the catalog has no schema.
C20_SelectedSchemaKnown ==
    pc = "selected" =>
        LET hint == DictGet(context, "suggested_schema", <<>>)
            named == ExtractSchemaFromQuery(user_query, schemas)
            sel == result["selected_schema"]
        IN  /\ sel = <<>> \/ sel \in Range(schemas)
            /\ sel = <<>> => schemas = <<>>
            /\ IF hint \in Range(schemas) THEN sel = hint
               ELSE IF named # <<>> THEN sel = named
               ELSE IF schemas # <<>> THEN sel = schemas[1]
               ELSE sel = <<>>

\* C21 (as the specification states it): with an empty catalog every
\* resolve returns no schema and, unless the caller hinted tables, no table.
C21_EmptyCatalogSelectsNothing ==
    (pc = "selected" /\ schemas = <<>>) =>
        /\ result["selected_schema"] = <<>>
        /\ "suggested_tables" \notin DOMAIN context =>
              result["selected_tables"] = <<>>

---------------------------------------------------------------------------
(* Claims about a run of query(), checked under Spec *)

\* the definition a registry gives a rule name, or <<>>
RuleDefinition(registry, name) ==
    IF \E i \in 1..Len(registry) : registry[i][1] = name
    THEN registry[CHOOSE i \in 1..Len(registry) : registry[i][1] = name][2]
    ELSE <<>>

\* C16: with sub-agents enabled the rule registry of the discrepancy engine
\* is the mapping of the most recent set_business_logic call (empty before
\* the first call), so a name registered again has its latest definition.
C16_LastRegistryWins ==
    sub_agents =>
        /\ rule_calls = <<>> => business_rules = <<>>
        /\ rule_calls # <<>> =>
              /\ business_rules = rule_calls[Len(rule_calls)]
              /\ \A i \in 1..Len(business_rules) :
                    business_rules[i][2] =
                        RuleDefinition(rule_calls[Len(rule_calls)],
                                       business_rules[i][1])

\* rule1 was registered as a predicate and then again as a rule query
C16_Witness ==
    /\ sub_agents
    /\ Len(rule_calls) = 2
    /\ RuleDefinition(rule_calls[1], "rule1") = [check_function |-> "fn_raises"]
    /\ RuleDefinition(rule_calls[2], "rule1") = [sql_query |-> "SQL_FAILS"]
    /\ RuleDefinition(business_rules, "rule1") = [sql_query |-> "SQL_FAILS"]

\* a is a prefix of b
IsPrefix(a, b) == Len(a) <= Len(b) /\ SubSeq(b, 1, Len(a)) = a

\* the run has left planning behind
Running == pc \in {"executing", "raised", "done"}

\* the context field a stage writes
StageField(agent) ==
    CASE agent = "schema" -> "schema_info"
      [] agent = "query" -> "query_result"
      [] OTHER -> "discrepancies"

\* the entries of one category of a store
Entries(mem, category) == IF category \in DOMAIN mem THEN mem[category] ELSE <<>>

SummaryKeys == {"result", "discrepancies", "schema_used", "tables_used", "plan"}

\* the query stage stored a failure
QueryFailed ==
    /\ "query_result" \in DOMAIN context
    /\ "error" \in DOMAIN context["query_result"]

C2_HintsReachResolver ==
    (Running /\ "schema_info" \in DOMAIN context) =>
        \A n \in 1..Len(plan.steps) :
            plan.steps[n].agent = "schema" =>
                /\ "suggested_tables" \in DOMAIN plan.steps[n].params =>
                      context["schema_info"]["selected_tables"]
                          = plan.steps[n].params["suggested_tables"]
                /\ "suggested_schema" \in DOMAIN plan.steps[n].params =>
                      context["schema_info"]["selected_schema"]
                          = plan.steps[n].params["suggested_schema"]

\* C3: a failed execution is an error field of query_result and aborts
\* nothing: the run does not raise, a stage or the final step is ready while
\* the run goes on, a discrepancy stage that follows writes [], and the run
\* ends with every stage of the plan run, the context archived and the
\* summary returned.
C3_FailureDoesNotAbort ==
    QueryFailed =>
        /\ pc \in {"executing", "done"}
        /\ "data" \notin DOMAIN context["query_result"]
        /\ "discrepancies" \in DOMAIN context => context["discrepancies"] = <<>>
        /\ pc = "executing" => ENABLED (DiscrepancyStage \/ Finish)
        /\ pc = "done" =>
              /\ stages = StepKinds(plan)
              /\ Entries(memory, "query_contexts")
                    = Append(Entries(mem0, "query_contexts"),
                             [content |-> context, metadata |-> <<>>])
              /\ DOMAIN result = SummaryKeys
              /\ result["result"] = context["query_result"]
              /\ result["discrepancies"] = <<>>

C3_Witness ==
    /\ pc = "done"
    /\ QueryFailed
    /\ stages = <<"schema", "query", "discrepancy">>
    /\ \E n \in 1..Len(business_rules) :
          business_rules[n][2] = [check_function |-> "fn_raises"]

\* C4 (as the specification states it): no run ends in an exception, and a
\* run that ends returns a dict with the five keys of the summary.
C4_AlwaysReturns ==
    /\ pc # "raised"
    /\ pc = "done" => DOMAIN result = SummaryKeys

\* C5 (as the specification states it): before the terminal append, and so
\* after a run that raised, the store is what it was when the run began.
C5_StoreUntouched ==
    pc \in {"received", "executing", "raised"} => memory = mem0

\* C5 (amended): before the terminal append the category query_contexts is
\* what it was when the run began, so a run that raised leaves it so; the
\* store keeps every earlier entry, and gains at most one entry in each of
\* user_queries, schema_selections, executed_queries and discrepancies.
C5_ContextsUntouched ==
    pc \in {"received", "executing", "raised"} =>
        /\ Entries(memory, "query_contexts") = Entries(mem0, "query_contexts")
        /\ \A c \in DOMAIN mem0 : IsPrefix(mem0[c], Entries(memory, c))
        /\ \A c \in DOMAIN memory :
              /\ Len(memory[c]) <= Len(Entries(mem0, c)) + 1
              /\ memory[c] # Entries(mem0, c) =>
                    c \in {"user_queries", "schema_selections",
                           "executed_queries", "discrepancies"}
        /\ Entries(memory, "user_queries")
              = Append(Entries(mem0, "user_queries"),
                       [content |-> user_query, metadata |-> <<>>])

C5_Witness ==
    /\ pc = "raised"
    /\ stages = <<"schema", "query", "discrepancy">>
    /\ Entries(mem0, "query_contexts") # <<>>
    /\ Entries(memory, "schema_selections") # <<>>
    /\ Entries(memory, "executed_queries") # <<>>

\* C6: a run that got through its last stage has appended its final
\* context, with the last stage's write in it, to query_contexts exactly
\* once, and has returned the summary of that context and the plan.
C6_ArchiveAndSummary ==
    pc = "done" =>
        /\ stages = StepKinds(plan)
        /\ StageField(stages[Len(stages)]) \in DOMAIN context
        /\ Entries(memory, "query_contexts")
              = Append(Entries(mem0, "query_contexts"),
                       [content |-> context, metadata |-> <<>>])
        /\ DOMAIN result = SummaryKeys
        /\ result["result"] = IF "query_result" \in DOMAIN context
                              THEN context["query_result"] ELSE <<>>
        /\ result["discrepancies"] = IF "discrepancies" \in DOMAIN context
                                     THEN context["discrepancies"] ELSE <<>>
        /\ result["schema_used"] = context["schema_info"]["selected_schema"]
        /\ result["tables_used"] = context["schema_info"]["selected_tables"]
        /\ result["plan"] = plan

C6_Witness ==
    /\ pc = "done"
    /\ Entries(mem0, "query_contexts") # <<>>
    /\ Len(stages) = 3
    /\ result["discrepancies"] # <<>>
    /\ result["tables_used"] # <<>>
    /\ "data" \in DOMAIN result["result"]

\* the archive categories in the order a run appends to them
ArchiveOrder ==
    <<"user_queries", "schema_selections", "executed_queries",
      "discrepancies", "query_contexts">>

\* how many entries of a category the store mem holds beyond the store base
Appended(mem, base, category) ==
    Len(Entries(mem, category)) - Len(Entries(base, category))

\* what the run has appended so far, by category
AppendedSoFar ==
    pc # "idle" =>
        /\ Appended(memory, mem0, "user_queries") = 1
        /\ Appended(memory, mem0, "schema_selections") =
              IF "schema_info" \in DOMAIN context THEN 1 ELSE 0
        /\ Appended(memory, mem0, "executed_queries") =
              IF /\ "query_result" \in DOMAIN context
                 /\ <<"execute", "execute_raises">> \notin Range(calls)
              THEN 1 ELSE 0
        /\ Appended(memory, mem0, "discrepancies") =
              IF /\ "discrepancies" \in DOMAIN context
                 /\ context["discrepancies"] # <<>>
              THEN 1 ELSE 0
        /\ Appended(memory, mem0, "query_contexts") =
              IF pc = "done" THEN 1 ELSE 0

\* a step appends to at most one category, one entry, and to none that this
\* run has appended to already nor to one that comes before such a category
AppendsInOrder ==
    /\ DOMAIN memory' \subseteq Range(ArchiveOrder)
    /\ \A n \in 1..Len(ArchiveOrder) :
          Entries(memory', ArchiveOrder[n]) # Entries(memory, ArchiveOrder[n]) =>
              /\ Entries(memory', ArchiveOrder[n]) =
                    Append(Entries(memory, ArchiveOrder[n]),
                           Entries(memory', ArchiveOrder[n])
                               [Len(Entries(memory', ArchiveOrder[n]))])
              /\ \A m \in 1..Len(ArchiveOrder) :
                    /\ m # n => Entries(memory', ArchiveOrder[m])
                                    = Entries(memory, ArchiveOrder[m])
                    /\ m >= n => Appended(memory, mem0', ArchiveOrder[m]) = 0

\* C29: in a run of query() the appends to the store come in the order
\* user_queries, schema_selections, executed_queries (only for a query that
\* succeeded), discrepancies (only for a non-empty list), query_contexts,
\* each at most once; the query_contexts append is the last one and is made
\* exactly once in a completed run.
C29_ArchiveOrder == []AppendedSoFar /\ [][AppendsInOrder]_vars

\* a completed run that appended to all five categories
C29_Witness ==
    /\ pc = "done"
    /\ \A n \in 1..Len(ArchiveOrder) :
          Appended(memory, mem0, ArchiveOrder[n]) = 1
    /\ mem0 # <<>>

---------------------------------------------------------------------------
(* Claims about the query agent, checked under QueryAgentSpec *)

\* the calls whose cursor.execute and fetch did not raise
Executed == SelectSeq(calls, LAMBDA c : c.outcome # "execute_raises")

\* C30: the executed_queries category holds one entry for each call whose
\* execution succeeded, in call order, and none for a call whose execution
\* failed; every example a call offers the generator is the request and the
\* SQL text of an earlier call whose execution succeeded.
C30_OnlyExecutedQueriesRecorded ==
    pc = "query_agent" =>
        /\ Entries(memory, "executed_queries") =
              [i \in 1..Len(Executed) |->
                  [timestamp |-> Executed[i].time,
                   content |-> [user_query |-> Executed[i].user_query,
                                sql_query |-> Executed[i].sql_query],
                   metadata |-> <<>>]]
        /\ \A k \in 1..Len(calls) : \A x \in 1..Len(calls[k].examples) :
              \E j \in 1..(k - 1) :
                  /\ calls[j].outcome # "execute_raises"
                  /\ calls[j].user_query = calls[k].examples[x].query
                  /\ calls[j].sql_query = calls[k].examples[x].sql

\* a query that executed, then one that failed, then a call that is offered
\* the first one as its only example
C30_Witness ==
    /\ pc = "query_agent"
    /\ Len(calls) = 3
    /\ calls[1].outcome = "ok"
    /\ calls[2].outcome = "execute_raises"
    /\ calls[2].sql_query # calls[1].sql_query
    /\ calls[3].examples =
          <<[query |-> calls[1].user_query, sql |-> calls[1].sql_query]>>

====
